---- MODULE Spec2Model ----
(***************************************************************************)
(* A model of the collective-communication core of LBANN:                  *)
(*   - lbann_comm: the transform-aware inter-model allreduce (recursive    *)
(*     doubling and pairwise-exchange ring), the collective buffer pool    *)
(*     and the constructor that builds the communicator topology;          *)
(*   - generic_data_reader: the minibatch position bookkeeping, the       *)
(*     subset selection and the shared checkpoint;                         *)
(*   - distributed_minibatch_parallel_io: the rotation of the root.        *)
(*                                                                         *)
(* Each MPI rank is a sequential process.  A rank's position is recorded   *)
(* at the points where it blocks: inside mpi::SendRecv (its send is        *)
(* posted, its receive is not yet matched) and inside the collective       *)
(* mpi::Split.  Everything a rank does between two blocking points is one  *)
(* step.                                                                   *)
(*                                                                         *)
(* A matrix is kept as its sequence of columns.  Every operation of the    *)
(* allreduce takes ALL rows of a column range, so a column is kept as the  *)
(* one value all of its entries hold, and the height as a number.          *)
(***************************************************************************)
EXTENDS Integers, Sequences, FiniteSets, TLC

(* ------------------------------ bounds --------------------------------- *)

\* The largest number of ranks of the inter-model communicator.
MaxProcs == 4

(* ------------------------- program constants --------------------------- *)

\* The hard-coded dimension limit of recursive doubling.
RD_MAX_DIM == 64
\* sizeof(DataType), the bytes of one matrix entry.
ElemSize == 4
\* nullptr, as returned by get_collective_buffer.
NullPtr == 0

(* ------------------------------ state ---------------------------------- *)

VARIABLES
    \* --- one inter-model communicator and one allreduce call per rank ---
    nprocs,           \* mpi::Size(intermodel_comm) = get_num_models()
    height,           \* mat.Height(), the same on every rank
    width,            \* mat.Width(), the same on every rank
    max_recv_count,   \* the caller's max_recv_count argument
    entry,            \* the member function the ranks call
    input,            \* input[r]: rank r's matrix when it called
    mat,              \* mat[r]: rank r's matrix, a sequence of columns
    call,             \* call[r]: the locals of rank r's call (pc, algo, step, ...)
    chan,             \* chan[<<s, d>>]: messages sent by s, not yet received by d
    bytes_sent,       \* bytes_sent[r]
    bytes_received,   \* bytes_received[r]
    collective_bufs,  \* collective_bufs[r]: size -> sequence of buffer pointers
    heap,             \* heap[r]: pointer -> contents of the allocated buffer
    \* --- the buffer pool driven directly (rank 0's communicator) ---
    pool,             \* the history of the direct get_collective_buffer calls
    \* --- the construction of lbann_comm on every rank of the world ---
    world_size,       \* mpi::Size(mpi::COMM_WORLD)
    ppm_arg,          \* the constructor's argument _procs_per_model
    node_name,        \* node_name[r]: what MPI_Get_processor_name gives rank r
    ctor,             \* ctor[r]: the members of rank r's lbann_comm, and its pc
    \* --- one generic_data_reader and the loop that drives it ---
    reader,           \* the members of the data reader
    obs,              \* what the driving loop saw in the current epoch
    \* --- the readers of the ranks of the world and their checkpoint ---
    persist,          \* the checkpoint file, each rank's reader and its pc
    \* --- the minibatch coordinators of the ranks of one model ---
    io                \* each rank's distributed_minibatch_parallel_io

arVars == <<nprocs, height, width, max_recv_count, entry, input, mat, call,
            chan, bytes_sent, bytes_received>>
bufVars == <<collective_bufs, heap>>
ctorVars == <<world_size, ppm_arg, node_name, ctor>>
rdVars == <<reader, obs, persist>>
vars == <<arVars, bufVars, pool, ctorVars, rdVars, io>>

Ranks == 0 .. (nprocs - 1)

(* ------------------------- integer helpers ----------------------------- *)

\* The C++ operator & on non-negative ints.
RECURSIVE BitAnd(_, _)
BitAnd(a, b) ==
    IF a = 0 \/ b = 0 THEN 0
    ELSE (a % 2) * (b % 2) + 2 * BitAnd(a \div 2, b \div 2)

\* The C++ operator ^ on non-negative ints.
RECURSIVE BitXor(_, _)
BitXor(a, b) ==
    IF a = 0 THEN b
    ELSE IF b = 0 THEN a
    ELSE ((a + b) % 2) + 2 * BitXor(a \div 2, b \div 2)

RECURSIVE SumTo(_, _)
SumTo(f, i) == IF i < 0 THEN 0 ELSE SumTo(f, i - 1) + f[i]

(* -------------------------- matrix views ------------------------------- *)

\* mat(ALL, IR(lo, hi)): the columns lo .. hi-1 (0-based, half open).
View(m, lo, hi) == SubSeq(m, lo + 1, hi)

\* Writing v through the view that starts at column lo.
WriteView(m, lo, v) ==
    [c \in 1 .. Len(m) |->
        IF c > lo /\ c <= lo + Len(v) THEN v[c - lo] ELSE m[c]]

\* slice_lengths with the remainder columns left out.
slice_lengths_no_remainder(w, np) == [i \in 0 .. (np - 1) |-> w \div np]

\* slice_lengths: cols_per_proc each, one more for the first cols_remainder.
slice_lengths(w, np) ==
    [i \in 0 .. (np - 1) |-> (w \div np) + (IF i < w % np THEN 1 ELSE 0)]

\* slice_ends: std::partial_sum of slice_lengths.
slice_ends(w, np) ==
    [i \in 0 .. (np - 1) |-> SumTo(slice_lengths(w, np), i)]

SliceLo(w, np, i) == slice_ends(w, np)[i] - slice_lengths(w, np)[i]
SliceHi(w, np, i) == slice_ends(w, np)[i]

(* ------------------- the transforms (identity, SUM) -------------------- *)

\* What is read from a scratch buffer holding b when n columns are decoded:
\* the first n columns (a short buffer reads as zeros).
Decode(b, n) == [c \in 1 .. n |-> IF c <= Len(b) THEN b[c] ELSE 0]

\* send_transform(mat, ALL, IR(lo, hi), send_size, partial): the slice as it
\* is, and its size in bytes.
send_transform(m, h, lo, hi) ==
    [buf |-> View(m, lo, hi), size |-> h * (hi - lo) * ElemSize]

\* recv_transform(buf, dest): dest := decoded buf; returns the bytes read.
recv_transform(b, dest, h) ==
    [data |-> Decode(b, Len(dest)), size |-> h * Len(dest) * ElemSize]

\* recv_apply_transform(buf, dest): dest += decoded buf; returns the bytes read.
recv_apply_transform(b, dest, h) ==
    [data |-> [c \in 1 .. Len(dest) |-> dest[c] + Decode(b, Len(dest))[c]],
     size |-> h * Len(dest) * ElemSize]

\* The columns that a count of bytes holds.
ColsOf(bytes, h) == bytes \div (h * ElemSize)

(* ----------------------- collective buffer pool ------------------------ *)

\* f with key k (added if absent) bound to v.
Extend(f, k, v) == [x \in (DOMAIN f) \cup {k} |-> IF x = k THEN v ELSE f[x]]

\* new uint8_t[size]: an address no earlier allocation of this process had.
NewPtr(hp) == Cardinality(DOMAIN hp) + 1

\* get_collective_buffer allocating again for a slot that exists.
get_collective_buffer_realloc(bufs, hp, size, idx) ==
    LET p == NewPtr(hp) IN
    IF size \notin DOMAIN bufs
    THEN IF idx # 0
         THEN [bufs |-> bufs, heap |-> hp, ret |-> NullPtr, raised |-> "none"]
         ELSE [bufs |-> Extend(bufs, size, <<p>>),
               heap |-> Extend(hp, p, <<>>), ret |-> p, raised |-> "none"]
    ELSE IF Len(bufs[size]) > idx
         THEN [bufs |-> [bufs EXCEPT ![size][idx + 1] = p],
               heap |-> Extend(hp, p, <<>>), ret |-> p, raised |-> "none"]
         ELSE IF Len(bufs[size]) # idx
              THEN [bufs |-> bufs, heap |-> hp, ret |-> NullPtr,
                    raised |-> "none"]
              ELSE [bufs |-> [bufs EXCEPT ![size] = Append(@, p)],
                    heap |-> Extend(hp, p, <<>>), ret |-> p,
                    raised |-> "none"]

\* get_collective_buffer(size, idx) on the pool bufs and the heap hp:
\* the pool and the heap after the call, the pointer returned, and the
\* exception raised ("none": the function has no throw statement).
get_collective_buffer(bufs, hp, size, idx) ==
    IF size \notin DOMAIN bufs
    THEN IF idx # 0
         THEN [bufs |-> bufs, heap |-> hp, ret |-> NullPtr, raised |-> "none"]
         ELSE LET p == NewPtr(hp) IN
              [bufs |-> Extend(bufs, size, <<p>>),
               heap |-> Extend(hp, p, <<>>),
               ret  |-> p, raised |-> "none"]
    ELSE IF Len(bufs[size]) > idx
         THEN [bufs |-> bufs, heap |-> hp, ret |-> bufs[size][idx + 1],
               raised |-> "none"]
         ELSE IF Len(bufs[size]) # idx
              THEN [bufs |-> bufs, heap |-> hp, ret |-> NullPtr, raised |-> "none"]
              ELSE LET p == NewPtr(hp) IN
                   [bufs |-> [bufs EXCEPT ![size] = Append(@, p)],
                    heap |-> Extend(hp, p, <<>>),
                    ret  |-> p, raised |-> "none"]

(* --------------------- one rank's allreduce call ----------------------- *)

\* Everything rank r owns, and the sends it has posted in the current step.
RankState(r) ==
    [mat  |-> mat[r], call |-> call[r],
     bytes_sent |-> bytes_sent[r], bytes_received |-> bytes_received[r],
     bufs |-> collective_bufs[r], heap |-> heap[r], out |-> <<>>]

\* mpi::SendRecv(send_buf, send_size, dst, recv_buf, max_recv_count, src) is
\* entered: the send is posted and the rank waits for a message from src.
\* call.log keeps what each SendRecv of the call was entered with.
SendRecv(s, dst, src, size, data) ==
    [s EXCEPT !.out = Append(@, [dst |-> dst, size |-> size, data |-> data]),
              !.call.src = src,
              !.call.log = Append(@, [dst |-> dst, src |-> src,
                                      size |-> size, data |-> data])]

\* The receive half of mpi::SendRecv(..., recv_buf, max_recv_count, src):
\* the message overwrites the start of the buffer.
RecvInto(old, data) == data \o SubSeq(old, Len(data) + 1, Len(old))

\* rd_loop stopping one round early (mask < nprocs / 2).
rd_loop_one_round_short(r, s) ==
    IF s.call.step < nprocs \div 2
    THEN LET partner == BitXor(r, s.call.step)
             t == send_transform(s.mat, height, 0, width)
         IN SendRecv([s EXCEPT !.call.pc = "rd_recv",
                               !.call.send_size = t.size,
                               !.bytes_sent = @ + t.size],
                     partner, partner, t.size, t.buf)
    ELSE [s EXCEPT !.call.pc = "done"]

\* The while loop of recursive doubling, from its test: the next send is
\* posted, or the loop and the function end.
rd_loop(r, s) ==
    IF s.call.step < nprocs
    THEN LET partner == BitXor(r, s.call.step)
             t == send_transform(s.mat, height, 0, width)
         IN SendRecv([s EXCEPT !.call.pc = "rd_recv",
                               !.call.send_size = t.size,
                               !.bytes_sent = @ + t.size],
                     partner, partner, t.size, t.buf)
    ELSE [s EXCEPT !.call.pc = "done"]

\* recursive_doubling_allreduce_pow2 taking its scratch buffer before the
\* power-of-two test.
recursive_doubling_buffer_first(r, s) ==
    LET g == get_collective_buffer(s.bufs, s.heap, max_recv_count, 0)
        s1 == [s EXCEPT !.bufs = g.bufs, !.heap = g.heap,
                        !.call.recv_buf = g.ret, !.call.step = 1]
    IN IF BitAnd(nprocs, nprocs - 1) # 0
       THEN [s1 EXCEPT !.call.pc = "done"]
       ELSE rd_loop(r, s1)

\* recursive_doubling_allreduce_pow2 up to its first blocking receive.
recursive_doubling_allreduce_pow2(r, s) ==
    IF BitAnd(nprocs, nprocs - 1) # 0
    THEN [s EXCEPT !.call.pc = "done"]
    ELSE LET g == get_collective_buffer(s.bufs, s.heap, max_recv_count, 0)
         IN rd_loop(r, [s EXCEPT !.bufs = g.bufs, !.heap = g.heap,
                                 !.call.recv_buf = g.ret,
                                 !.call.step = 1])

\* The remaining nprocs - 2 allgather steps of the PE ring, from the loop
\* test: recv_buf is forwarded as it is, or the function ends.
ag_loop(r, s) ==
    IF s.call.step < nprocs - 1
    THEN LET src == (r - 1 + nprocs) % nprocs
             dst == (r + 1) % nprocs
             fwd == Decode(s.heap[s.call.recv_buf],
                           ColsOf(s.call.send_size, height))
         IN SendRecv([s EXCEPT !.call.pc = "ag_recv",
                               !.bytes_sent = @ + s.call.send_size],
                     dst, src, s.call.send_size, fwd)
    ELSE [s EXCEPT !.call.pc = "done"]

\* The first allgather step of the PE ring: the locally reduced slice is
\* encoded and sent on.
ag_first(r, s) ==
    LET src == (r - 1 + nprocs) % nprocs
        dst == (r + 1) % nprocs
        t == send_transform(s.mat, height, SliceLo(width, nprocs, r),
                            SliceHi(width, nprocs, r))
    IN SendRecv([s EXCEPT !.call.pc = "ag0_recv",
                          !.call.send_size = t.size,
                          !.bytes_sent = @ + t.size],
                dst, src, t.size, t.buf)

\* rs_loop sending the rank's own slice in every step.
rs_loop_sends_own_slice(r, s) ==
    IF s.call.step < nprocs
    THEN LET dst == (r + s.call.step) % nprocs
             src == (r - s.call.step + nprocs) % nprocs
             t == send_transform(s.mat, height, SliceLo(width, nprocs, r),
                                 SliceHi(width, nprocs, r))
         IN SendRecv([s EXCEPT !.call.pc = "rs_recv",
                               !.call.send_size = t.size,
                               !.bytes_sent = @ + t.size],
                     dst, src, t.size, t.buf)
    ELSE ag_first(r, s)

\* The reduce-scatter loop of the PE ring, from its test.
rs_loop(r, s) ==
    IF s.call.step < nprocs
    THEN LET dst == (r + s.call.step) % nprocs
             src == (r - s.call.step + nprocs) % nprocs
             t == send_transform(s.mat, height, SliceLo(width, nprocs, dst),
                                 SliceHi(width, nprocs, dst))
         IN SendRecv([s EXCEPT !.call.pc = "rs_recv",
                               !.call.send_size = t.size,
                               !.bytes_sent = @ + t.size],
                     dst, src, t.size, t.buf)
    ELSE ag_first(r, s)

\* pe_ring_allreduce up to its first blocking receive.
pe_ring_allreduce(r, s) ==
    LET g == get_collective_buffer(s.bufs, s.heap, max_recv_count, 0)
    IN rs_loop(r, [s EXCEPT !.bufs = g.bufs, !.heap = g.heap,
                            !.call.recv_buf = g.ret,
                            !.call.step = 1])

\* The remaining nprocs - 2 allgather steps of ring_allreduce, from the
\* loop test: recv_buf is forwarded as it is, or the function ends.
ring_ag_loop(r, s) ==
    IF s.call.step < nprocs - 1
    THEN LET src == (r - 1 + nprocs) % nprocs
             dst == (r + 1) % nprocs
             fwd == Decode(s.heap[s.call.recv_buf],
                           ColsOf(s.call.send_size, height))
         IN SendRecv([s EXCEPT !.call.pc = "ring_ag_recv"],
                     dst, src, s.call.send_size, fwd)
    ELSE [s EXCEPT !.call.pc = "done"]

\* ring_ag_first sending the rank's own slice.
ring_ag_first_sends_own_slice(r, s) ==
    LET src == (r - 1 + nprocs) % nprocs
        dst == (r + 1) % nprocs
        t == send_transform(s.mat, height, SliceLo(width, nprocs, r),
                            SliceHi(width, nprocs, r))
    IN SendRecv([s EXCEPT !.call.pc = "ring_ag0_recv",
                          !.call.send_size = t.size],
                dst, src, t.size, t.buf)

\* The first allgather step of ring_allreduce: slice rank + 1, the one this
\* rank has fully reduced, is encoded and sent on.
ring_ag_first(r, s) ==
    LET src == (r - 1 + nprocs) % nprocs
        dst == (r + 1) % nprocs
        send_slice == (r + 1) % nprocs
        t == send_transform(s.mat, height, SliceLo(width, nprocs, send_slice),
                            SliceHi(width, nprocs, send_slice))
    IN SendRecv([s EXCEPT !.call.pc = "ring_ag0_recv",
                          !.call.send_size = t.size],
                dst, src, t.size, t.buf)

\* The reduce-scatter loop of ring_allreduce, from its test (step counts
\* from 0): slice rank - step is sent to the next rank of the ring.
ring_rs_loop(r, s) ==
    IF s.call.step < nprocs - 1
    THEN LET src == (r - 1 + nprocs) % nprocs
             dst == (r + 1) % nprocs
             send_slice == (r - s.call.step + nprocs) % nprocs
             t == send_transform(s.mat, height,
                                 SliceLo(width, nprocs, send_slice),
                                 SliceHi(width, nprocs, send_slice))
         IN SendRecv([s EXCEPT !.call.pc = "ring_rs_recv",
                               !.call.send_size = t.size],
                     dst, src, t.size, t.buf)
    ELSE ring_ag_first(r, s)

\* ring_allreduce up to its first blocking receive.  It counts no bytes.
ring_allreduce(r, s) ==
    LET g == get_collective_buffer(s.bufs, s.heap, max_recv_count, 0)
    IN ring_rs_loop(r, [s EXCEPT !.bufs = g.bufs, !.heap = g.heap,
                                 !.call.recv_buf = g.ret,
                                 !.call.step = 0])

\* Dispatch without the power-of-two test.
Dispatch_no_pow2_test(np, h, w) ==
    IF h <= RD_MAX_DIM /\ w <= RD_MAX_DIM
    THEN "recursive_doubling_allreduce_pow2"
    ELSE "pe_ring_allreduce"

\* Dispatch with < for <= in the dimension test.
Dispatch_strict_limit(np, h, w) ==
    IF BitAnd(np, np - 1) # 0
    THEN "pe_ring_allreduce"
    ELSE IF h < RD_MAX_DIM /\ w < RD_MAX_DIM
         THEN "recursive_doubling_allreduce_pow2"
         ELSE "pe_ring_allreduce"

\* The algorithm intermodel_allreduce hands the matrix to.
Dispatch(np, h, w) ==
    IF BitAnd(np, np - 1) # 0
    THEN "pe_ring_allreduce"
    ELSE IF h <= RD_MAX_DIM /\ w <= RD_MAX_DIM
         THEN "recursive_doubling_allreduce_pow2"
         ELSE "pe_ring_allreduce"

\* The body of the member function named algo, up to its first receive.
RunAlgo(algo, r, s) ==
    LET s1 == [s EXCEPT !.call.algo = algo] IN
    IF algo = "recursive_doubling_allreduce_pow2"
    THEN recursive_doubling_allreduce_pow2(r, s1)
    ELSE IF algo = "ring_allreduce"
         THEN ring_allreduce(r, s1)
         ELSE pe_ring_allreduce(r, s1)

\* intermodel_allreduce up to its first blocking receive.
intermodel_allreduce(r, s) == RunAlgo(Dispatch(nprocs, height, width), r, s)

(* ------------------------------ steps ---------------------------------- *)

RECURSIVE PostAll(_, _, _)
PostAll(ch, r, out) ==
    IF out = <<>> THEN ch
    ELSE PostAll([ch EXCEPT ![<<r, Head(out).dst>>] =
                      Append(@, [size |-> Head(out).size,
                                 data |-> Head(out).data])],
                 r, Tail(out))

\* Rank r's state becomes s; ch is the channel state its sends are added to.
Commit(r, s, ch) ==
    /\ mat' = [mat EXCEPT ![r] = s.mat]
    /\ call' = [call EXCEPT ![r] = s.call]
    /\ bytes_sent' = [bytes_sent EXCEPT ![r] = s.bytes_sent]
    /\ bytes_received' = [bytes_received EXCEPT ![r] = s.bytes_received]
    /\ collective_bufs' = [collective_bufs EXCEPT ![r] = s.bufs]
    /\ heap' = [heap EXCEPT ![r] = s.heap]
    /\ chan' = PostAll(ch, r, s.out)
    /\ UNCHANGED <<nprocs, height, width, max_recv_count, entry, input, pool,
                   ctorVars, rdVars, io>>

\* chan with the first message from src to r taken out.
Taken(src, r) == [chan EXCEPT ![<<src, r>>] = Tail(@)]

\* A message longer than max_recv_count does not fit the posted receive:
\* the transport reports truncation and the process is aborted.
Truncated(r, src) ==
    /\ Head(chan[<<src, r>>]).size > max_recv_count
    /\ call' = [call EXCEPT ![r].pc = "abort"]
    /\ chan' = Taken(src, r)
    /\ UNCHANGED <<nprocs, height, width, max_recv_count, entry, input, mat,
                   bytes_sent, bytes_received, collective_bufs, heap, pool,
                   ctorVars, rdVars, io>>

\* Rank r calls the member function named by entry.
Call(r) ==
    /\ call[r].pc = "idle"
    /\ LET s == RankState(r) IN
       Commit(r,
              IF entry = "intermodel_allreduce" THEN intermodel_allreduce(r, s)
              ELSE RunAlgo(entry, r, s),
              chan)

\* A SendRecv of recursive doubling completes: reduce, shift the mask, loop.
rd_exchange(r) ==
    /\ call[r].pc = "rd_recv"
    /\ LET partner == call[r].src IN
       /\ chan[<<partner, r>>] # <<>>
       /\ \/ Truncated(r, partner)
          \/ /\ Head(chan[<<partner, r>>]).size <= max_recv_count
             /\ LET s == RankState(r)
                    b == RecvInto(s.heap[s.call.recv_buf],
                                  Head(chan[<<partner, r>>]).data)
                    a == recv_apply_transform(b, s.mat, height)
                IN Commit(r,
                          rd_loop(r, [s EXCEPT
                              !.heap = [@ EXCEPT ![s.call.recv_buf] = b],
                              !.mat = a.data,
                              !.bytes_received = @ + a.size,
                              !.call.step = 2 * @]),
                          Taken(partner, r))

\* A SendRecv of the reduce-scatter completes: reduce into accum_view, loop.
pe_reduce_scatter(r) ==
    /\ call[r].pc = "rs_recv"
    /\ LET src == call[r].src IN
       /\ chan[<<src, r>>] # <<>>
       /\ \/ Truncated(r, src)
          \/ /\ Head(chan[<<src, r>>]).size <= max_recv_count
             /\ LET s == RankState(r)
                    lo == SliceLo(width, nprocs, r)
                    hi == SliceHi(width, nprocs, r)
                    b == RecvInto(s.heap[s.call.recv_buf],
                                  Head(chan[<<src, r>>]).data)
                    a == recv_apply_transform(b, View(s.mat, lo, hi), height)
                IN Commit(r,
                          rs_loop(r, [s EXCEPT
                              !.heap = [@ EXCEPT ![s.call.recv_buf] = b],
                              !.mat = WriteView(@, lo, a.data),
                              !.bytes_received = @ + a.size,
                              !.call.step = @ + 1]),
                          Taken(src, r))

\* The first allgather SendRecv completes: decode into the slice of rank
\* r - 1, take the second scratch buffer, enter the forwarding loop.
pe_allgather_first(r) ==
    /\ call[r].pc = "ag0_recv"
    /\ LET src == call[r].src IN
       /\ chan[<<src, r>>] # <<>>
       /\ \/ Truncated(r, src)
          \/ /\ Head(chan[<<src, r>>]).size <= max_recv_count
             /\ LET s == RankState(r)
                    data_src == (r - 1 + nprocs) % nprocs
                    lo == SliceLo(width, nprocs, data_src)
                    hi == SliceHi(width, nprocs, data_src)
                    b == RecvInto(s.heap[s.call.recv_buf],
                                  Head(chan[<<src, r>>]).data)
                    a == recv_transform(b, View(s.mat, lo, hi), height)
                    h1 == [s.heap EXCEPT ![s.call.recv_buf] = b]
                    g == get_collective_buffer(s.bufs, h1, max_recv_count, 1)
                IN Commit(r,
                          ag_loop(r, [s EXCEPT
                              !.heap = g.heap,
                              !.bufs = g.bufs,
                              !.mat = WriteView(@, lo, a.data),
                              !.bytes_received = @ + a.size,
                              !.call.send_size = a.size,
                              !.call.recv_buf2 = g.ret,
                              !.call.step = 1]),
                          Taken(src, r))

\* pe_allgather_forward without the swap of the two scratch buffers.
pe_allgather_forward_no_swap(r) ==
    /\ call[r].pc = "ag_recv"
    /\ LET src == call[r].src IN
       /\ chan[<<src, r>>] # <<>>
       /\ \/ Truncated(r, src)
          \/ /\ Head(chan[<<src, r>>]).size <= max_recv_count
             /\ LET s == RankState(r)
                    data_src == (r - s.call.step - 1 + nprocs) % nprocs
                    lo == SliceLo(width, nprocs, data_src)
                    hi == SliceHi(width, nprocs, data_src)
                    b == RecvInto(s.heap[s.call.recv_buf2],
                                  Head(chan[<<src, r>>]).data)
                    a == recv_transform(b, View(s.mat, lo, hi), height)
                IN Commit(r,
                          ag_loop(r, [s EXCEPT
                              !.heap = [@ EXCEPT ![s.call.recv_buf2] = b],
                              !.mat = WriteView(@, lo, a.data),
                              !.bytes_received = @ + a.size,
                              !.call.send_size = a.size,
                              !.call.step = @ + 1]),
                          Taken(src, r))

\* A forwarding SendRecv completes: decode recv_buf2 into the slice it
\* carries, swap the two scratch buffers, loop.
pe_allgather_forward(r) ==
    /\ call[r].pc = "ag_recv"
    /\ LET src == call[r].src IN
       /\ chan[<<src, r>>] # <<>>
       /\ \/ Truncated(r, src)
          \/ /\ Head(chan[<<src, r>>]).size <= max_recv_count
             /\ LET s == RankState(r)
                    data_src == (r - s.call.step - 1 + nprocs) % nprocs
                    lo == SliceLo(width, nprocs, data_src)
                    hi == SliceHi(width, nprocs, data_src)
                    b == RecvInto(s.heap[s.call.recv_buf2],
                                  Head(chan[<<src, r>>]).data)
                    a == recv_transform(b, View(s.mat, lo, hi), height)
                IN Commit(r,
                          ag_loop(r, [s EXCEPT
                              !.heap = [@ EXCEPT ![s.call.recv_buf2] = b],
                              !.mat = WriteView(@, lo, a.data),
                              !.bytes_received = @ + a.size,
                              !.call.send_size = a.size,
                              !.call.recv_buf = s.call.recv_buf2,
                              !.call.recv_buf2 = s.call.recv_buf,
                              !.call.step = @ + 1]),
                          Taken(src, r))

\* A SendRecv of the ring reduce-scatter completes: reduce into slice
\* rank - step - 1, loop.
ring_reduce_scatter(r) ==
    /\ call[r].pc = "ring_rs_recv"
    /\ LET src == call[r].src IN
       /\ chan[<<src, r>>] # <<>>
       /\ \/ Truncated(r, src)
          \/ /\ Head(chan[<<src, r>>]).size <= max_recv_count
             /\ LET s == RankState(r)
                    recv_slice == (r - s.call.step - 1 + nprocs) % nprocs
                    lo == SliceLo(width, nprocs, recv_slice)
                    hi == SliceHi(width, nprocs, recv_slice)
                    b == RecvInto(s.heap[s.call.recv_buf],
                                  Head(chan[<<src, r>>]).data)
                    a == recv_apply_transform(b, View(s.mat, lo, hi), height)
                IN Commit(r,
                          ring_rs_loop(r, [s EXCEPT
                              !.heap = [@ EXCEPT ![s.call.recv_buf] = b],
                              !.mat = WriteView(@, lo, a.data),
                              !.call.step = @ + 1]),
                          Taken(src, r))

\* The first allgather SendRecv of ring_allreduce completes: decode into
\* the rank's own slice, take the second scratch buffer, enter the
\* forwarding loop.
ring_allgather_first(r) ==
    /\ call[r].pc = "ring_ag0_recv"
    /\ LET src == call[r].src IN
       /\ chan[<<src, r>>] # <<>>
       /\ \/ Truncated(r, src)
          \/ /\ Head(chan[<<src, r>>]).size <= max_recv_count
             /\ LET s == RankState(r)
                    lo == SliceLo(width, nprocs, r)
                    hi == SliceHi(width, nprocs, r)
                    b == RecvInto(s.heap[s.call.recv_buf],
                                  Head(chan[<<src, r>>]).data)
                    a == recv_transform(b, View(s.mat, lo, hi), height)
                    h1 == [s.heap EXCEPT ![s.call.recv_buf] = b]
                    g == get_collective_buffer(s.bufs, h1, max_recv_count, 1)
                IN Commit(r,
                          ring_ag_loop(r, [s EXCEPT
                              !.heap = g.heap,
                              !.bufs = g.bufs,
                              !.mat = WriteView(@, lo, a.data),
                              !.call.send_size = a.size,
                              !.call.recv_buf2 = g.ret,
                              !.call.step = 1]),
                          Taken(src, r))

\* A forwarding SendRecv of ring_allreduce completes: decode recv_buf2 into
\* slice rank - step, swap the two scratch buffers, loop.
ring_allgather_forward(r) ==
    /\ call[r].pc = "ring_ag_recv"
    /\ LET src == call[r].src IN
       /\ chan[<<src, r>>] # <<>>
       /\ \/ Truncated(r, src)
          \/ /\ Head(chan[<<src, r>>]).size <= max_recv_count
             /\ LET s == RankState(r)
                    recv_slice == (r - s.call.step + nprocs) % nprocs
                    lo == SliceLo(width, nprocs, recv_slice)
                    hi == SliceHi(width, nprocs, recv_slice)
                    b == RecvInto(s.heap[s.call.recv_buf2],
                                  Head(chan[<<src, r>>]).data)
                    a == recv_transform(b, View(s.mat, lo, hi), height)
                IN Commit(r,
                          ring_ag_loop(r, [s EXCEPT
                              !.heap = [@ EXCEPT ![s.call.recv_buf2] = b],
                              !.mat = WriteView(@, lo, a.data),
                              !.call.send_size = a.size,
                              !.call.recv_buf = s.call.recv_buf2,
                              !.call.recv_buf2 = s.call.recv_buf,
                              !.call.step = @ + 1]),
                          Taken(src, r))

(* --------------------------- specification ----------------------------- *)

\* The matrix shapes <<height, width>> the ranks call with.
Shapes == {<<1, 0>>, <<1, 1>>, <<1, 3>>, <<2, 7>>,
           <<64, 64>>, <<65, 2>>, <<2, 65>>}

Entries == {"intermodel_allreduce", "recursive_doubling_allreduce_pow2",
            "pe_ring_allreduce"}

\* Rank r's input: r + 1 in every entry, or a value that tells the rank and
\* the column apart.
InputMat(pattern, r, w) ==
    [c \in 1 .. w |-> IF pattern = 1 THEN r + 1 ELSE c * (4 ^ r)]

IdleCall ==
    [pc |-> "idle", algo |-> "none", step |-> 0, send_size |-> 0, src |-> 0,
     recv_buf |-> NullPtr, recv_buf2 |-> NullPtr, log |-> <<>>]

IdlePool == [alive |-> FALSE]

\* No communicator is being constructed.
IdleCtor ==
    /\ world_size = 0
    /\ ppm_arg = 0
    /\ node_name = <<>>
    /\ ctor = <<>>

\* No minibatch coordinator exists.
IdleIo == io = <<>>

\* No data reader exists.
IdleReader ==
    /\ reader = <<>>
    /\ obs = <<>>
    /\ persist = <<>>

InitAllreduce ==
    /\ nprocs \in 1 .. MaxProcs
    /\ \E sh \in Shapes :
          /\ height = sh[1]
          /\ width = sh[2]
          /\ max_recv_count \in {sh[1] * sh[2] * ElemSize,
                                 (sh[1] * sh[2] * ElemSize) \div 2}
    /\ entry \in Entries
    /\ \E pattern \in {1, 2} :
          input = [r \in Ranks |-> InputMat(pattern, r, width)]
    /\ mat = input
    /\ call = [r \in Ranks |-> IdleCall]
    /\ chan = [p \in Ranks \X Ranks |-> <<>>]
    /\ bytes_sent = [r \in Ranks |-> 0]
    /\ bytes_received = [r \in Ranks |-> 0]
    /\ collective_bufs = [r \in Ranks |-> <<>>]
    /\ heap = [r \in Ranks |-> <<>>]
    /\ pool = IdlePool
    /\ IdleCtor
    /\ IdleReader
    /\ IdleIo

NextAllreduce ==
    \/ \E r \in Ranks : Call(r)
    \/ \E r \in Ranks : rd_exchange(r)
    \/ \E r \in Ranks : pe_reduce_scatter(r)
    \/ \E r \in Ranks : pe_allgather_first(r)
    \/ \E r \in Ranks : pe_allgather_forward(r)

SpecAllreduce == InitAllreduce /\ [][NextAllreduce]_vars

\* The two ring algorithms called directly, on the shapes that cut into
\* even, uneven and empty slices.
RingEntries == {"pe_ring_allreduce", "ring_allreduce"}
RingShapes == {<<1, 0>>, <<1, 1>>, <<1, 3>>, <<2, 7>>}

InitRing ==
    /\ nprocs \in 1 .. MaxProcs
    /\ \E sh \in RingShapes :
          /\ height = sh[1]
          /\ width = sh[2]
          /\ max_recv_count \in {sh[1] * sh[2] * ElemSize,
                                 (sh[1] * sh[2] * ElemSize) \div 2}
    /\ entry \in RingEntries
    /\ \E pattern \in {1, 2} :
          input = [r \in Ranks |-> InputMat(pattern, r, width)]
    /\ mat = input
    /\ call = [r \in Ranks |-> IdleCall]
    /\ chan = [p \in Ranks \X Ranks |-> <<>>]
    /\ bytes_sent = [r \in Ranks |-> 0]
    /\ bytes_received = [r \in Ranks |-> 0]
    /\ collective_bufs = [r \in Ranks |-> <<>>]
    /\ heap = [r \in Ranks |-> <<>>]
    /\ pool = IdlePool
    /\ IdleCtor
    /\ IdleReader
    /\ IdleIo

NextRing ==
    \/ \E r \in Ranks : Call(r)
    \/ \E r \in Ranks : pe_reduce_scatter(r)
    \/ \E r \in Ranks : pe_allgather_first(r)
    \/ \E r \in Ranks : pe_allgather_forward(r)
    \/ \E r \in Ranks : ring_reduce_scatter(r)
    \/ \E r \in Ranks : ring_allgather_first(r)
    \/ \E r \in Ranks : ring_allgather_forward(r)

SpecRing == InitRing /\ [][NextRing]_vars

(* ===================== lbann_comm::lbann_comm ========================== *)

\* The largest world the communicator is constructed on.
MaxWorld == 4

WorldRanks == 0 .. (world_size - 1)

\* C++ integer division (towards zero) and remainder (sign of the dividend).
Abs(a) == IF a < 0 THEN -a ELSE a
CDiv(a, b) ==
    IF (a < 0) = (b < 0) THEN Abs(a) \div Abs(b) ELSE -(Abs(a) \div Abs(b))
CMod(a, b) == a - b * CDiv(a, b)

\* The host names of the cluster and std::hash<std::string> of each, cut to
\* an int: two of the names collide once the sign is dropped.
Hosts == {"node-a", "node-b", "node-c"}
StdHash(name) ==
    CASE name = "node-a" -> 7
      [] name = "node-b" -> -7
      [] OTHER -> 3

Range(q) == {q[i] : i \in DOMAIN q}

\* mpi::Rank(comm) of world rank r in the communicator with members comm.
RankIn(comm, r) == (CHOOSE i \in 1 .. Len(comm) : comm[i] = r) - 1

\* The ranks of S in the order MPI_Comm_split gives them: by key, ties by
\* the rank in the parent communicator.
RECURSIVE SplitOrder(_, _, _)
SplitOrder(S, key, parent) ==
    IF S = {} THEN <<>>
    ELSE LET m == CHOOSE x \in S : \A y \in S \ {x} :
                      \/ key[x] < key[y]
                      \/ key[x] = key[y] /\ RankIn(parent, x) < RankIn(parent, y)
         IN <<m>> \o SplitOrder(S \ {m}, key, parent)

\* mpi::Split(parent, color, key, out) as rank r sees it: the members of
\* parent that gave r's color.
mpi_Split(parent, color, key, r) ==
    SplitOrder({q \in Range(parent) : color[q] = color[r]}, key, parent)

\* mpi::COMM_WORLD
COMM_WORLD == [i \in 1 .. world_size |-> i - 1]

\* The order of the blocking points of the constructor.
Stage(pc) ==
    CASE pc = "split_model" -> 1
      [] pc = "split_intermodel" -> 2
      [] pc = "split_hash" -> 3
      [] pc = "allgather" -> 4
      [] pc = "split_node" -> 5
      [] pc = "constructed" -> 6
      [] OTHER -> 0

\* Every rank of comm has entered the collective at blocking point pc.
AllEntered(comm, pc) == \A q \in Range(comm) : Stage(ctor[q].pc) >= Stage(pc)

\* ctor_check with the operands of % exchanged.
ctor_check_swapped(ppm, ws) ==
    IF ppm > ws THEN "procs_per_model is larger than world_size"
    ELSE IF CMod(ppm, ws) # 0
         THEN "procs_per_model does not divide world_size"
         ELSE "ok"

\* The parameter check of the constructor: "ok", or what is thrown.
ctor_check(ppm, ws) ==
    IF ppm > ws THEN "procs_per_model is larger than world_size"
    ELSE IF CMod(ws, ppm) # 0
         THEN "procs_per_model does not divide world_size"
         ELSE "ok"

\* model_split_args with color and key exchanged.
model_split_args_swapped(c) == [color |-> c.rank_in_model, key |-> c.model_rank]

\* The color and key of the split that makes model_comm.
model_split_args(c) == [color |-> c.model_rank, key |-> c.rank_in_model]

\* The color and key of the split that makes intermodel_comm.
intermodel_split_args(c) == [color |-> c.rank_in_model, key |-> c.model_rank]

NoComm == <<>>

NewCtor ==
    [pc |-> "start", procs_per_model |-> 0, num_models |-> 0,
     model_rank |-> 0, rank_in_model |-> 0, what |-> "",
     model_comm |-> NoComm, intermodel_comm |-> NoComm,
     hash |-> 0, hash_comm |-> NoComm, node_num |-> 0, node_comm |-> NoComm,
     model_ranks_on_node |-> <<>>, procs_per_node |-> 0, rank_in_node |-> 0]

CtorStep(r, c) ==
    /\ ctor' = [ctor EXCEPT ![r] = c]
    /\ UNCHANGED <<world_size, ppm_arg, node_name, arVars, bufVars, pool,
                   rdVars, io>>

\* The constructor from its start to the first mpi::Split: the parameters
\* are set and checked; an invalid topology throws lbann_exception before
\* any communicator exists.  A negative color is an error of MPI_Comm_split.
ctor_begin(r) ==
    /\ ctor[r].pc = "start"
    /\ LET ppm == IF ppm_arg = 0 THEN world_size ELSE ppm_arg
           c == [ctor[r] EXCEPT !.procs_per_model = ppm,
                                !.num_models = CDiv(world_size, ppm),
                                !.model_rank = CDiv(r, ppm),
                                !.rank_in_model = CMod(r, ppm)]
           chk == ctor_check(ppm, world_size)
       IN CtorStep(r,
            IF chk # "ok" THEN [c EXCEPT !.pc = "throw", !.what = chk]
            ELSE IF model_split_args(c).color < 0
                 THEN [c EXCEPT !.pc = "mpi_error"]
                 ELSE [c EXCEPT !.pc = "split_model"])

\* The split by model_rank completes; the split by rank_in_model is entered.
ctor_model_comm(r) ==
    /\ ctor[r].pc = "split_model"
    /\ AllEntered(COMM_WORLD, "split_model")
    /\ LET a == [q \in WorldRanks |-> model_split_args(ctor[q])]
           c == [ctor[r] EXCEPT !.model_comm =
                    mpi_Split(COMM_WORLD, [q \in WorldRanks |-> a[q].color],
                              [q \in WorldRanks |-> a[q].key], r)]
       IN CtorStep(r,
            IF intermodel_split_args(c).color < 0
            THEN [c EXCEPT !.pc = "mpi_error"]
            ELSE [c EXCEPT !.pc = "split_intermodel"])

\* The split by rank_in_model completes; the grid is made; setup_node_comm
\* hashes the node name and enters the split by hash.
ctor_intermodel_comm(r) ==
    /\ ctor[r].pc = "split_intermodel"
    /\ AllEntered(COMM_WORLD, "split_intermodel")
    /\ LET a == [q \in WorldRanks |-> intermodel_split_args(ctor[q])]
           h == StdHash(node_name[r])
       IN CtorStep(r, [ctor[r] EXCEPT
              !.intermodel_comm =
                  mpi_Split(COMM_WORLD, [q \in WorldRanks |-> a[q].color],
                            [q \in WorldRanks |-> a[q].key], r),
              !.hash = IF h >= 0 THEN h ELSE -h,
              !.pc = "split_hash"])

\* The split by hash completes; the allgather of the node names is entered.
setup_node_comm_hash(r) ==
    /\ ctor[r].pc = "split_hash"
    /\ AllEntered(COMM_WORLD, "split_hash")
    /\ CtorStep(r, [ctor[r] EXCEPT
              !.hash_comm =
                  mpi_Split(COMM_WORLD, [q \in WorldRanks |-> ctor[q].hash],
                            [q \in WorldRanks |-> q], r),
              !.pc = "allgather"])

\* setup_node_comm_names without the comparison of the names: every rank of
\* hash_comm takes node_num 0.
setup_node_comm_names_by_hash_only(r) ==
    /\ ctor[r].pc = "allgather"
    /\ AllEntered(ctor[r].hash_comm, "allgather")
    /\ CtorStep(r, [ctor[r] EXCEPT !.node_num = 0, !.pc = "split_node"])

\* The allgather completes; node_num is the first rank of hash_comm with
\* this rank's node name; the split of hash_comm by node_num is entered.
setup_node_comm_names(r) ==
    /\ ctor[r].pc = "allgather"
    /\ AllEntered(ctor[r].hash_comm, "allgather")
    /\ LET hc == ctor[r].hash_comm
           node_name_list == [i \in 1 .. Len(hc) |-> node_name[hc[i]]]
           same == {i \in 1 .. Len(hc) : node_name_list[i] = node_name[r]}
           first == CHOOSE i \in same : \A j \in same : i <= j
       IN CtorStep(r, [ctor[r] EXCEPT
              !.node_num = IF same = {} THEN RankIn(hc, r) ELSE first - 1,
              !.pc = "split_node"])

\* mpi::Translate(from, i, to): the rank in to of rank i of from.
MPI_UNDEFINED == -32766
mpi_Translate(from, i, to) ==
    IF from[i + 1] \in Range(to) THEN RankIn(to, from[i + 1])
    ELSE MPI_UNDEFINED

\* The split by node_num completes: node_comm is made, hash_comm freed, the
\* model ranks of the node listed; the constructor returns.
setup_node_comm_split(r) ==
    /\ ctor[r].pc = "split_node"
    /\ AllEntered(ctor[r].hash_comm, "split_node")
    /\ LET hc == ctor[r].hash_comm
           nc == mpi_Split(hc, [q \in Range(hc) |-> ctor[q].node_num],
                           [q \in Range(hc) |-> q], r)
       IN CtorStep(r, [ctor[r] EXCEPT
              !.node_comm = nc,
              !.hash_comm = NoComm,
              !.model_ranks_on_node =
                  [i \in 1 .. Len(nc) |->
                      mpi_Translate(nc, i - 1, ctor[r].model_comm)],
              !.procs_per_node = Len(nc),
              !.rank_in_node = RankIn(nc, r),
              !.pc = "constructed"])

\* No allreduce is running.
IdleAllreduce ==
    /\ nprocs = 0 /\ height = 0 /\ width = 0 /\ max_recv_count = 0
    /\ entry = "none" /\ input = <<>> /\ mat = <<>> /\ call = <<>>
    /\ chan = <<>> /\ bytes_sent = <<>> /\ bytes_received = <<>>

\* No buffer pool is in use.
IdleBufs == collective_bufs = <<>> /\ heap = <<>>

InitCtor ==
    /\ world_size \in 1 .. MaxWorld
    /\ ppm_arg \in -2 .. (world_size + 1)
    /\ node_name \in [WorldRanks -> Hosts]
    /\ ctor = [r \in WorldRanks |-> NewCtor]
    /\ IdleAllreduce
    /\ IdleBufs
    /\ pool = IdlePool
    /\ IdleReader
    /\ IdleIo

NextCtor ==
    \/ \E r \in WorldRanks : ctor_begin(r)
    \/ \E r \in WorldRanks : ctor_model_comm(r)
    \/ \E r \in WorldRanks : ctor_intermodel_comm(r)
    \/ \E r \in WorldRanks : setup_node_comm_hash(r)
    \/ \E r \in WorldRanks : setup_node_comm_names(r)
    \/ \E r \in WorldRanks : setup_node_comm_split(r)

SpecCtor == InitCtor /\ [][NextCtor]_vars

(* =============== lbann_comm::get_collective_buffer ===================== *)

\* The buffer sizes and the largest slot index the pool is asked for.
PoolSizes == {4, 16}
MaxIdx == 2

\* The number of buffers in the bucket for size.
BucketLen(bufs, size) == IF size \in DOMAIN bufs THEN Len(bufs[size]) ELSE 0

\* All the pointers the pool holds.
PoolPtrs(bufs) == UNION {Range(bufs[sz]) : sz \in DOMAIN bufs}

\* A direct call get_collective_buffer(size, idx) on rank 0's communicator.
\* pool.last keeps the call, pool.handed the first pointer each (size, idx)
\* was answered with.
pool_get(size, idx) ==
    /\ pool.alive
    /\ LET before == collective_bufs[0]
           g == get_collective_buffer(before, heap[0], size, idx)
       IN /\ collective_bufs' = [collective_bufs EXCEPT ![0] = g.bufs]
          /\ heap' = [heap EXCEPT ![0] = g.heap]
          /\ pool' = [pool EXCEPT
                 !.last = [called |-> TRUE, size |-> size, idx |-> idx,
                           len |-> BucketLen(before, size),
                           before |-> before, ret |-> g.ret,
                           raised |-> g.raised],
                 !.handed = IF g.ret # NullPtr /\ <<size, idx>> \notin DOMAIN @
                            THEN Extend(@, <<size, idx>>, g.ret)
                            ELSE @]
    /\ UNCHANGED <<arVars, ctorVars, rdVars, io>>

\* ~lbann_comm: every buffer of the pool is deleted; the communicator's
\* lifetime ends.
pool_destroy ==
    /\ pool.alive
    /\ pool' = [pool EXCEPT !.alive = FALSE,
                            !.freed = PoolPtrs(collective_bufs[0])]
    /\ UNCHANGED <<arVars, bufVars, ctorVars, rdVars, io>>

NoCall == [called |-> FALSE, size |-> 0, idx |-> 0, len |-> 0,
           before |-> <<>>, ret |-> NullPtr, raised |-> "none"]

InitPool ==
    /\ collective_bufs = [r \in {0} |-> <<>>]
    /\ heap = [r \in {0} |-> <<>>]
    /\ pool = [alive |-> TRUE, freed |-> {}, last |-> NoCall, handed |-> <<>>]
    /\ IdleAllreduce
    /\ IdleCtor
    /\ IdleReader
    /\ IdleIo

NextPool ==
    \/ \E size \in PoolSizes, idx \in 0 .. MaxIdx : pool_get(size, idx)
    \/ pool_destroy

SpecPool == InitPool /\ [][NextPool]_vars

(* ====================== generic_data_reader ============================ *)

\* The largest data set and the largest batch size the reader is given.
MaxData == 3
MaxBatch == 2

\* The arguments setup is called with by a reader of batch size B: alone
\* (stride B, no offset) or as one of two readers (stride 2B, offset 0 or B),
\* at the start of the data or one sample in.
BaseOffsets == {0, 1}
BatchStrides(B) == {B, 2 * B}
ModelOffsets(B) == {0, B}

\* What std::shuffle may leave: any order of the same elements.
Shuffles(q) ==
    {[i \in 1 .. Len(q) |-> q[p[i]]] : p \in Permutations(1 .. Len(q))}

\* getNumData()
getNumData(rd) == Len(rd.m_shuffled_indices)

\* ceil((float) a / (float) b) for the small positive values used here.
CeilDiv(a, b) == (a + b - 1) \div b

\* generic_data_reader::setup with its five arguments, but for the shuffle.
setup(rd, base_offset, batch_stride, sample_stride, model_offset, comm) ==
    [rd EXCEPT
        !.m_model_offset = model_offset,
        !.m_base_offset = base_offset,
        !.m_batch_stride = batch_stride,
        !.m_sample_stride = sample_stride,
        !.m_last_mini_batch_stride = batch_stride,
        !.m_current_mini_batch_idx = 0,
        !.m_use_alt_last_mini_batch_size = IF comm THEN TRUE ELSE @,
        !.m_num_iterations_per_epoch =
            IF comm THEN rd.m_num_mini_batches_per_reader
            ELSE CeilDiv(getNumData(rd), rd.m_batch_size),
        !.m_current_pos = base_offset + model_offset]

\* The test update() and get_next_position() share: the minibatch about to
\* finish is the second to last one, or a later one.
at_last_stride(rd) ==
    /\ rd.m_use_alt_last_mini_batch_size
    /\ (rd.m_current_mini_batch_idx + 1) >= (rd.m_num_mini_batches_per_reader - 1)

\* generic_data_reader::get_next_position
get_next_position(rd) ==
    IF at_last_stride(rd)
    THEN rd.m_current_pos + rd.m_last_mini_batch_stride
    ELSE rd.m_current_pos + rd.m_batch_stride

\* getm_batch_size without the test of the flag.
getm_batch_size_no_flag(rd) ==
    IF rd.m_current_mini_batch_idx >= (rd.m_num_mini_batches_per_reader - 1)
    THEN rd.m_last_mini_batch_size
    ELSE rd.m_batch_size

\* getm_batch_size with > for >= in the index test.
getm_batch_size_strict(rd) ==
    IF /\ rd.m_use_alt_last_mini_batch_size
       /\ rd.m_current_mini_batch_idx > (rd.m_num_mini_batches_per_reader - 1)
    THEN rd.m_last_mini_batch_size
    ELSE rd.m_batch_size

\* generic_data_reader::getm_batch_size
getm_batch_size(rd) ==
    IF /\ rd.m_use_alt_last_mini_batch_size
       /\ rd.m_current_mini_batch_idx >= (rd.m_num_mini_batches_per_reader - 1)
    THEN rd.m_last_mini_batch_size
    ELSE rd.m_batch_size

\* update leaving current_mini_batch_idx as it is when the epoch wraps.
update_keeps_idx(rd) ==
    LET pos == IF at_last_stride(rd)
               THEN rd.m_current_pos + rd.m_last_mini_batch_stride
               ELSE rd.m_current_pos + rd.m_batch_stride
    IN IF pos < Len(rd.m_shuffled_indices)
       THEN [rd |-> [rd EXCEPT !.m_current_pos = pos,
                               !.m_current_mini_batch_idx = @ + 1],
             ret |-> TRUE]
       ELSE [rd |-> [rd EXCEPT !.m_current_pos =
                                   rd.m_base_offset + rd.m_model_offset],
             ret |-> FALSE]

\* update counting a position just past the last index as inside the data.
update_wraps_late(rd) ==
    LET pos == IF at_last_stride(rd)
               THEN rd.m_current_pos + rd.m_last_mini_batch_stride
               ELSE rd.m_current_pos + rd.m_batch_stride
    IN IF pos <= Len(rd.m_shuffled_indices)
       THEN [rd |-> [rd EXCEPT !.m_current_pos = pos,
                               !.m_current_mini_batch_idx = @ + 1],
             ret |-> TRUE]
       ELSE [rd |-> [rd EXCEPT !.m_current_mini_batch_idx = 0,
                               !.m_current_pos =
                                   rd.m_base_offset + rd.m_model_offset],
             ret |-> FALSE]

\* generic_data_reader::update, but for the shuffle: the reader after the
\* call and the value returned.
update(rd) ==
    LET pos == IF at_last_stride(rd)
               THEN rd.m_current_pos + rd.m_last_mini_batch_stride
               ELSE rd.m_current_pos + rd.m_batch_stride
    IN IF pos < Len(rd.m_shuffled_indices)
       THEN [rd |-> [rd EXCEPT !.m_current_pos = pos,
                               !.m_current_mini_batch_idx = @ + 1],
             ret |-> TRUE]
       ELSE [rd |-> [rd EXCEPT !.m_current_mini_batch_idx = 0,
                               !.m_current_pos =
                                   rd.m_base_offset + rd.m_model_offset],
             ret |-> FALSE]

\* The reader with its indices shuffled, unless first_n is set.
shuffled(rd) ==
    IF rd.m_first_n THEN {rd}
    ELSE {[rd EXCEPT !.m_shuffled_indices = q] :
             q \in Shuffles(rd.m_shuffled_indices)}

NewEpoch == [started |-> TRUE, sizes |-> <<>>, ret |-> "none", total |-> 0]

\* setup(base_offset, batch_stride, sample_stride, model_offset, comm) is
\* called once, before the driving loop starts its first epoch.
rd_setup(base_offset, batch_stride, sample_stride, model_offset, comm) ==
    /\ ~obs.started
    /\ reader' \in shuffled(setup(reader, base_offset, batch_stride,
                                  sample_stride, model_offset, comm))
    /\ obs' = NewEpoch
    /\ UNCHANGED <<arVars, bufVars, pool, ctorVars, persist, io>>

\* The stride calculate_num_iterations_per_epoch may leave in
\* m_last_mini_batch_stride: one sample, for a tail shorter than a batch.
LastStrides == {1}

\* distributed_minibatch_parallel_io::calculate_num_iterations_per_epoch
\* configures the tail of the epoch of a reader that was set up: here its
\* m_last_mini_batch_stride (m_num_mini_batches_per_reader and
\* m_last_mini_batch_size are drawn when the reader is made).
calculate_num_iterations_per_epoch(stride) ==
    /\ obs.started /\ obs.ret = "none"
    /\ reader.m_last_mini_batch_stride = reader.m_batch_stride
    /\ stride # reader.m_batch_stride
    /\ reader' = [reader EXCEPT !.m_last_mini_batch_stride = stride]
    /\ UNCHANGED <<arVars, bufVars, pool, ctorVars, obs, persist, io>>

RECURSIVE SeqSum(_)
SeqSum(q) == IF q = <<>> THEN 0 ELSE Head(q) + SeqSum(Tail(q))

\* One turn of the driving loop: the minibatch of get_batch_size() samples
\* is used, then update() is called.  obs.sizes lists the sizes of the
\* minibatches of the epoch; when update() returns false, obs.total is
\* their sum.
rd_update ==
    /\ obs.started
    /\ LET n == getm_batch_size(reader)
           u == update(reader)
           sizes == Append(IF obs.ret = "false" THEN <<>> ELSE obs.sizes, n)
       IN /\ reader' \in (IF u.ret THEN {u.rd} ELSE shuffled(u.rd))
          /\ obs' = [obs EXCEPT !.sizes = sizes,
                                !.ret = IF u.ret THEN "true" ELSE "false",
                                !.total = IF u.ret THEN 0 ELSE SeqSum(sizes)]
    /\ UNCHANGED <<arVars, bufVars, pool, ctorVars, persist, io>>

\* The reader once its data is loaded and its batch sizes are set: the
\* indices 0 .. N-1 in order, none held out.
InitReader ==
    /\ \E N \in 1 .. MaxData, B \in 1 .. MaxBatch, L \in 1 .. MaxBatch,
          nb \in 1 .. MaxData, fn \in BOOLEAN :
          reader = [m_shuffled_indices |-> [i \in 1 .. N |-> i - 1],
                    m_unused_indices |-> <<>>,
                    m_batch_size |-> B,
                    m_last_mini_batch_size |-> L,
                    m_num_mini_batches_per_reader |-> nb,
                    m_first_n |-> fn,
                    m_use_alt_last_mini_batch_size |-> FALSE,
                    m_current_pos |-> 0,
                    m_current_mini_batch_idx |-> 0,
                    m_num_iterations_per_epoch |-> 0,
                    m_base_offset |-> 0, m_model_offset |-> 0,
                    m_batch_stride |-> 0, m_sample_stride |-> 0,
                    m_last_mini_batch_stride |-> 0]
    /\ obs = [started |-> FALSE, sizes |-> <<>>, ret |-> "none", total |-> 0]
    /\ persist = <<>>
    /\ IdleAllreduce
    /\ IdleBufs
    /\ pool = IdlePool
    /\ IdleCtor
    /\ IdleIo

NextReader ==
    \/ \E base_offset \in BaseOffsets,
          batch_stride \in BatchStrides(reader.m_batch_size),
          model_offset \in ModelOffsets(reader.m_batch_size),
          comm \in BOOLEAN :
          rd_setup(base_offset, batch_stride, 1, model_offset, comm)
    \/ \E stride \in LastStrides : calculate_num_iterations_per_epoch(stride)
    \/ rd_update

SpecReader == InitReader /\ [][NextReader]_vars

(* ============ select_subset_of_data, use_unused_index_set ============== *)

\* The largest data set whose shuffles are all followed.
MaxSamples == 3

\* The data set of the documented example (100 samples, half of them used,
\* a fifth of those held out); it is followed with first_n set.
ExampleSamples == 100

\* The fractions given to set_use_percent and set_validation_percent, in
\* hundredths: 0, 0.2, 0.5 and 1.  For these and the sizes used here the
\* double product p * n, converted to an integer, is floor(p * n).
Percents == {0, 20, 50, 100}

\* m_use_percent and m_validation_percent are -1 until they are set.
Unset == 0 - 100

\* (size_t) (p * n) and (long) (p * n) for a fraction p.
PercentOf(p, n) == (p * n) \div 100

has_max_sample_count(rd) == rd.m_max_sample_count_was_set
has_use_percent(rd) == rd.m_use_percent # Unset
has_validation_percent(rd) == rd.m_validation_percent # Unset

\* std::vector::resize to a size that is not larger.
Resize(q, n) == SubSeq(q, 1, n)

\* std::sort
Sorted(q) == SortSeq(q, LAMBDA a, b : a < b)

\* select_one holding out validation_percent of the data before truncation.
select_one_split_of_all(rd, q) ==
    IF ~(has_max_sample_count(rd) \/ has_use_percent(rd)
           \/ has_validation_percent(rd))
    THEN [rd |-> [rd EXCEPT !.m_shuffled_indices = q], raised |-> "none"]
    ELSE IF has_max_sample_count(rd) /\ rd.m_max_sample_count > Len(q)
    THEN [rd |-> [rd EXCEPT !.m_shuffled_indices = q],
          raised |-> "lbann_exception"]
    ELSE LET cut == IF has_max_sample_count(rd)
                    THEN Resize(q, rd.m_max_sample_count)
                    ELSE IF has_use_percent(rd)
                         THEN Resize(q, PercentOf(rd.m_use_percent, Len(q)))
                         ELSE q
             unused == IF has_validation_percent(rd)
                       THEN PercentOf(rd.m_validation_percent, Len(q))
                       ELSE 0
             use_me == IF Len(cut) > unused THEN Len(cut) - unused ELSE 0
             held == IF unused > 0
                     THEN SubSeq(cut, use_me + 1, Len(cut))
                     ELSE rd.m_unused_indices
             kept == IF unused > 0 THEN Resize(cut, use_me) ELSE cut
         IN [rd |-> [rd EXCEPT
                       !.m_shuffled_indices =
                           IF rd.m_first_n THEN kept ELSE Sorted(kept),
                       !.m_unused_indices =
                           IF rd.m_first_n THEN held ELSE Sorted(held)],
             raised |-> "none"]

\* select_one throwing also when max_sample_count equals getNumData().
select_one_throws_at_equal(rd, q) ==
    IF ~(has_max_sample_count(rd) \/ has_use_percent(rd)
           \/ has_validation_percent(rd))
    THEN [rd |-> [rd EXCEPT !.m_shuffled_indices = q], raised |-> "none"]
    ELSE IF has_max_sample_count(rd) /\ rd.m_max_sample_count >= Len(q)
    THEN [rd |-> [rd EXCEPT !.m_shuffled_indices = q],
          raised |-> "lbann_exception"]
    ELSE LET cut == IF has_max_sample_count(rd)
                    THEN Resize(q, rd.m_max_sample_count)
                    ELSE IF has_use_percent(rd)
                         THEN Resize(q, PercentOf(rd.m_use_percent, Len(q)))
                         ELSE q
             unused == IF has_validation_percent(rd)
                       THEN PercentOf(rd.m_validation_percent, Len(cut))
                       ELSE 0
             use_me == Len(cut) - unused
             held == IF unused > 0
                     THEN SubSeq(cut, use_me + 1, Len(cut))
                     ELSE rd.m_unused_indices
             kept == IF unused > 0 THEN Resize(cut, use_me) ELSE cut
         IN [rd |-> [rd EXCEPT
                       !.m_shuffled_indices =
                           IF rd.m_first_n THEN kept ELSE Sorted(kept),
                       !.m_unused_indices =
                           IF rd.m_first_n THEN held ELSE Sorted(held)],
             raised |-> "none"]

\* generic_data_reader::select_subset_of_data after its first shuffle has
\* left the indices in the order q: the reader when the call ends, and
\* what it raised.
select_one(rd, q) ==
    IF ~(has_max_sample_count(rd) \/ has_use_percent(rd)
           \/ has_validation_percent(rd))
    THEN [rd |-> [rd EXCEPT !.m_shuffled_indices = q], raised |-> "none"]
    ELSE IF has_max_sample_count(rd) /\ rd.m_max_sample_count > Len(q)
    THEN [rd |-> [rd EXCEPT !.m_shuffled_indices = q],
          raised |-> "lbann_exception"]
    ELSE LET cut == IF has_max_sample_count(rd)
                    THEN Resize(q, rd.m_max_sample_count)
                    ELSE IF has_use_percent(rd)
                         THEN Resize(q, PercentOf(rd.m_use_percent, Len(q)))
                         ELSE q
             unused == IF has_validation_percent(rd)
                       THEN PercentOf(rd.m_validation_percent, Len(cut))
                       ELSE 0
             use_me == Len(cut) - unused
             held == IF unused > 0
                     THEN SubSeq(cut, use_me + 1, Len(cut))
                     ELSE rd.m_unused_indices
             kept == IF unused > 0 THEN Resize(cut, use_me) ELSE cut
         IN [rd |-> [rd EXCEPT
                       !.m_shuffled_indices =
                           IF rd.m_first_n THEN kept ELSE Sorted(kept),
                       !.m_unused_indices =
                           IF rd.m_first_n THEN held ELSE Sorted(held)],
             raised |-> "none"]

\* generic_data_reader::select_subset_of_data: every outcome of the call.
select_subset_of_data(rd) ==
    {select_one(rd, q) :
        q \in (IF rd.m_first_n THEN {rd.m_shuffled_indices}
               ELSE Shuffles(rd.m_shuffled_indices))}

\* use_unused_index_set copying the held-out indices and leaving them held.
use_unused_index_set_copy(rd) ==
    [rd EXCEPT !.m_shuffled_indices = rd.m_unused_indices]

\* use_unused_index_set exchanging the two vectors and clearing nothing.
use_unused_index_set_swap_only(rd) ==
    [rd EXCEPT !.m_shuffled_indices = rd.m_unused_indices,
               !.m_unused_indices = rd.m_shuffled_indices]

\* generic_data_reader::use_unused_index_set
use_unused_index_set(rd) ==
    [rd EXCEPT !.m_shuffled_indices = rd.m_unused_indices,
               !.m_unused_indices = <<>>]

\* select_subset_of_data() is called.  obs keeps the reader as the call
\* found it, what the call raised, and the number of use_unused_index_set
\* calls in a row (up to two).
ss_select ==
    /\ \E out \in select_subset_of_data(reader) :
          /\ reader' = out.rd
          /\ obs' = [op |-> "select_subset_of_data", pre |-> reader,
                     raised |-> out.raised, streak |-> 0]
    /\ UNCHANGED <<arVars, bufVars, pool, ctorVars, persist, io>>

\* use_unused_index_set() is called.
ss_use_unused ==
    /\ reader' = use_unused_index_set(reader)
    /\ obs' = [op |-> "use_unused_index_set", pre |-> reader,
               raised |-> "none",
               streak |-> IF obs.streak >= 1 THEN 2 ELSE 1]
    /\ UNCHANGED <<arVars, bufVars, pool, ctorVars, persist, io>>

\* The sizes of the data sets: every one up to MaxSamples, and the example
\* when the order is kept.
SampleCounts(fn) ==
    IF fn THEN (1 .. MaxSamples) \cup {ExampleSamples} ELSE 1 .. MaxSamples

\* The reader once its data is loaded and its subset options are set or
\* left alone.
InitSubset ==
    /\ \E fn \in BOOLEAN :
       \E N \in SampleCounts(fn), was_set \in BOOLEAN,
          count \in 0 .. (MaxSamples + 1),
          use \in Percents \cup {Unset}, val \in Percents \cup {Unset} :
          /\ (~was_set) => count = 0
          /\ reader = [m_shuffled_indices |-> [i \in 1 .. N |-> i - 1],
                       m_unused_indices |-> <<>>,
                       m_first_n |-> fn,
                       m_max_sample_count_was_set |-> was_set,
                       m_max_sample_count |-> count,
                       m_use_percent |-> use,
                       m_validation_percent |-> val]
    /\ obs = [op |-> "none", pre |-> <<>>, raised |-> "none", streak |-> 0]
    /\ persist = <<>>
    /\ IdleAllreduce
    /\ IdleBufs
    /\ pool = IdlePool
    /\ IdleCtor
    /\ IdleIo

NextSubset ==
    \/ ss_select
    \/ ss_use_unused

SpecSubset == InitSubset /\ [][NextSubset]_vars

(* ======== saveToCheckpointShared, loadFromCheckpointShared ============= *)

\* The largest world whose readers are checkpointed.
MaxCkptRanks == 2

CkptRanks == 0 .. (persist.world - 1)

\* A uint64_t as four 16-bit limbs, the least significant first.
Limb == 2 ^ 16

\* (uint64_t) x for an int x.
ToU64(x) ==
    <<x % Limb, (x \div Limb) % Limb,
      IF x < 0 THEN Limb - 1 ELSE 0, IF x < 0 THEN Limb - 1 ELSE 0>>

\* (int) val for a uint64_t val: its low 32 bits, as a signed number.
ToInt(val) ==
    val[1] + Limb * (IF val[2] >= Limb \div 2 THEN val[2] - Limb ELSE val[2])

\* std::vector::resize: cut, or filled up with zeros.
resize(q, n) == [i \in 1 .. n |-> IF i <= Len(q) THEN q[i] ELSE 0]

\* What rank 0 writes: the minibatch index, the number of indices, the
\* position and the indices.
ckpt_write(rd) ==
    [current_mini_batch_idx |-> ToU64(rd.m_current_mini_batch_idx),
     data_size |-> ToU64(Len(rd.m_shuffled_indices)),
     data_position |-> ToU64(rd.m_current_pos),
     data_indices |-> rd.m_shuffled_indices]

\* What rank 0 makes of the file when it loads.
ckpt_read(rd, file) ==
    [rd EXCEPT !.m_current_mini_batch_idx = ToInt(file.current_mini_batch_idx),
               !.m_current_pos = ToInt(file.data_position),
               !.m_shuffled_indices =
                   [i \in 1 .. ToInt(file.data_size) |-> file.data_indices[i]]]

\* load_resize with the test of the rank inverted.
load_resize_root_only(r, rd, size) ==
    IF r = 0
    THEN [rd EXCEPT !.m_shuffled_indices = resize(@, size)]
    ELSE rd

\* The resize before the broadcast of the indices, in every rank but 0.
load_resize(r, rd, size) ==
    IF r # 0
    THEN [rd EXCEPT !.m_shuffled_indices = resize(@, size)]
    ELSE rd

\* MPI_Bcast(&m_shuffled_indices[0], size, ...) received into q: the first
\* size elements of q are overwritten.
bcast_into(q, data) ==
    [i \in 1 .. Len(q) |-> IF i <= Len(data) THEN data[i] ELSE q[i]]

CkStep(r, pc, rd) ==
    [persist EXCEPT !.pc[r] = pc, !.rd[r] = rd]

\* saveToCheckpointShared on rank r: rank 0 writes the file, the others
\* write nothing.  persist.saved[r] keeps the reader as it was then.
ck_save(r) ==
    /\ persist.pc[r] = "run"
    /\ persist' = [persist EXCEPT
          !.pc[r] = "saved",
          !.saved[r] = persist.rd[r],
          !.file = IF r = 0 THEN ckpt_write(persist.rd[0]) ELSE @]
    /\ UNCHANGED <<arVars, bufVars, pool, ctorVars, reader, obs, io>>

\* The reader a restarted process holds before it loads: three indices in
\* order, at the start.
FreshReader ==
    [m_current_pos |-> 0, m_current_mini_batch_idx |-> 0,
     m_shuffled_indices |-> <<0, 1, 2>>]

\* loadFromCheckpointShared is entered on rank r, by the process that saved
\* or by a restarted one; rank 0 reads the file.
ck_load_begin(r) ==
    /\ persist.pc[r] = "saved"
    /\ \A q \in CkptRanks : persist.pc[q] # "run"
    /\ \E rd \in {persist.rd[r], FreshReader} :
          persist' = [persist EXCEPT
              !.pc[r] = "bcast_idx",
              !.prelen[r] = Len(rd.m_shuffled_indices),
              !.rd[r] = IF r = 0 THEN ckpt_read(rd, persist.file) ELSE rd]
    /\ UNCHANGED <<arVars, bufVars, pool, ctorVars, reader, obs, io>>

\* What rank r holds once the k-th broadcast of the load has delivered v:
\* the minibatch index, the position, the size (followed by the resize), then
\* the indices.
bcast_received(r, k, v) ==
    CASE k = 1 -> [persist.rd[r] EXCEPT !.m_current_mini_batch_idx = v]
      [] k = 2 -> [persist.rd[r] EXCEPT !.m_current_pos = v]
      [] k = 3 -> load_resize(r, persist.rd[r], v)
      [] k = 4 -> [persist.rd[r] EXCEPT
                      !.m_shuffled_indices = bcast_into(@, v)]

\* One MPI_Bcast from rank 0 in rank r: the root hands over its value, the
\* others wait for it.  persist.bc lists what the root has handed over.
Bcast(r, k, value, next_pc) ==
    /\ IF r = 0
       THEN persist' = [persist EXCEPT !.pc[r] = next_pc,
                                       !.bc = Append(@, value)]
       ELSE /\ Len(persist.bc) >= k
            /\ persist' = CkStep(r, next_pc, bcast_received(r, k, persist.bc[k]))
    /\ UNCHANGED <<arVars, bufVars, pool, ctorVars, reader, obs, io>>

\* MPI_Bcast(&m_current_mini_batch_idx, ...)
ck_bcast_idx(r) ==
    /\ persist.pc[r] = "bcast_idx"
    /\ Bcast(r, 1, persist.rd[r].m_current_mini_batch_idx, "bcast_pos")

\* MPI_Bcast(&m_current_pos, ...)
ck_bcast_pos(r) ==
    /\ persist.pc[r] = "bcast_pos"
    /\ Bcast(r, 2, persist.rd[r].m_current_pos, "bcast_size")

\* MPI_Bcast(&size, ...) and the resize that follows it.
ck_bcast_size(r) ==
    /\ persist.pc[r] = "bcast_size"
    /\ Bcast(r, 3, Len(persist.rd[r].m_shuffled_indices), "bcast_indices")

\* MPI_Bcast(&m_shuffled_indices[0], size, ...)
ck_bcast_indices(r) ==
    /\ persist.pc[r] = "bcast_indices"
    /\ Bcast(r, 4, persist.rd[r].m_shuffled_indices, "loaded")

\* The readers of the ranks when the checkpoint is taken: at the start of
\* their data or one minibatch in, each with its own order of two indices.
CkptReaders ==
    {[m_current_pos |-> pi[1], m_current_mini_batch_idx |-> pi[2],
      m_shuffled_indices |-> q] :
        pi \in {<<0, 0>>, <<1, 1>>, <<1, 0>>}, q \in {<<0, 1>>, <<1, 0>>}}

InitCheckpoint ==
    /\ \E W \in 1 .. MaxCkptRanks :
       \E rds \in [0 .. (W - 1) -> CkptReaders] :
          persist = [world |-> W,
                     rd |-> rds,
                     pc |-> [r \in 0 .. (W - 1) |-> "run"],
                     saved |-> [r \in 0 .. (W - 1) |-> <<>>],
                     prelen |-> [r \in 0 .. (W - 1) |-> 0],
                     file |-> <<>>,
                     bc |-> <<>>]
    /\ reader = <<>>
    /\ obs = <<>>
    /\ IdleAllreduce
    /\ IdleBufs
    /\ pool = IdlePool
    /\ IdleCtor
    /\ IdleIo

NextCheckpoint ==
    \/ \E r \in CkptRanks : ck_save(r)
    \/ \E r \in CkptRanks : ck_load_begin(r)
    \/ \E r \in CkptRanks : ck_bcast_idx(r)
    \/ \E r \in CkptRanks : ck_bcast_pos(r)
    \/ \E r \in CkptRanks : ck_bcast_size(r)
    \/ \E r \in CkptRanks : ck_bcast_indices(r)

SpecCheckpoint == InitCheckpoint /\ [][NextCheckpoint]_vars

(* ====== intermodel_sum_matrix, intermodel_broadcast_matrix ============= *)

\* sizeof(DataType) * mat.Height() * mat.Width()
MatBytes == ElemSize * height * width

\* intermodel_sum_matrix is entered on rank r: bytes_sent is counted and
\* the rank joins AllReduce(mat, intermodel_comm, mpi::SUM).
sum_matrix_enter(r) ==
    /\ entry = "intermodel_sum_matrix"
    /\ call[r].pc = "idle"
    /\ call' = [call EXCEPT ![r].pc = "AllReduce"]
    /\ bytes_sent' = [bytes_sent EXCEPT ![r] = @ + MatBytes]
    /\ UNCHANGED <<nprocs, height, width, max_recv_count, entry, input, mat,
                   chan, bytes_received, bufVars, pool, ctorVars, rdVars, io>>

\* AllReduce returns on rank r once every rank has joined it: mat is the
\* sum over the ranks, and bytes_received is counted.
sum_matrix_return(r) ==
    /\ call[r].pc = "AllReduce"
    /\ \A q \in Ranks : call[q].pc # "idle"
    /\ mat' = [mat EXCEPT ![r] =
                  [c \in 1 .. width |->
                      SumTo([i \in 0 .. (nprocs - 1) |-> input[i][c]],
                            nprocs - 1)]]
    /\ call' = [call EXCEPT ![r].pc = "done"]
    /\ bytes_received' = [bytes_received EXCEPT ![r] = @ + MatBytes]
    /\ UNCHANGED <<nprocs, height, width, max_recv_count, entry, input, chan,
                   bytes_sent, bufVars, pool, ctorVars, rdVars, io>>

\* intermodel_broadcast_matrix(mat, root) on rank r, root being
\* call[r].src: Broadcast(mat, intermodel_comm, root) returns at once on
\* the root and, on another rank, with the root's matrix once the root has
\* called.  No counter is touched.
intermodel_broadcast_matrix(r) ==
    /\ entry = "intermodel_broadcast_matrix"
    /\ call[r].pc = "idle"
    /\ LET root == call[r].src
       IN /\ r # root => call[root].pc # "idle"
          /\ mat' = [mat EXCEPT ![r] = input[root]]
    /\ call' = [call EXCEPT ![r].pc = "done"]
    /\ UNCHANGED <<nprocs, height, width, max_recv_count, entry, input, chan,
                   bytes_sent, bytes_received, bufVars, pool, ctorVars,
                   rdVars, io>>

FacadeEntries == {"intermodel_sum_matrix", "intermodel_broadcast_matrix"}
FacadeShapes == {<<1, 0>>, <<1, 1>>, <<2, 3>>}

\* The ranks of the inter-model communicator before one call of a member
\* function that moves a matrix; for a broadcast every rank names the same
\* root.
InitFacade ==
    /\ nprocs \in 1 .. MaxProcs
    /\ \E sh \in FacadeShapes :
          /\ height = sh[1]
          /\ width = sh[2]
          /\ max_recv_count = sh[1] * sh[2] * ElemSize
    /\ entry \in Entries \cup FacadeEntries
    /\ \E pattern \in {1, 2} :
          input = [r \in Ranks |-> InputMat(pattern, r, width)]
    /\ mat = input
    /\ \E root \in Ranks :
          /\ entry # "intermodel_broadcast_matrix" => root = 0
          /\ call = [r \in Ranks |-> [IdleCall EXCEPT !.src = root]]
    /\ chan = [p \in Ranks \X Ranks |-> <<>>]
    /\ bytes_sent = [r \in Ranks |-> 0]
    /\ bytes_received = [r \in Ranks |-> 0]
    /\ collective_bufs = [r \in Ranks |-> <<>>]
    /\ heap = [r \in Ranks |-> <<>>]
    /\ pool = IdlePool
    /\ IdleCtor
    /\ IdleReader
    /\ IdleIo

NextFacade ==
    \/ \E r \in Ranks : sum_matrix_enter(r)
    \/ \E r \in Ranks : sum_matrix_return(r)
    \/ \E r \in Ranks : intermodel_broadcast_matrix(r)
    \/ \E r \in Ranks : entry \in Entries /\ Call(r)
    \/ \E r \in Ranks : rd_exchange(r)
    \/ \E r \in Ranks : pe_reduce_scatter(r)
    \/ \E r \in Ranks : pe_allgather_first(r)
    \/ \E r \in Ranks : pe_allgather_forward(r)

SpecFacade == InitFacade /\ [][NextFacade]_vars

(* ========== the reader's index sets over its whole life ================ *)

\* The four calls that touch m_shuffled_indices and m_unused_indices, in
\* any order: obs.op names the last one.  First setup.
lc_setup(base_offset, batch_stride, model_offset, comm) ==
    /\ reader' \in shuffled(setup(reader, base_offset, batch_stride, 1,
                                  model_offset, comm))
    /\ obs' = [op |-> "setup", raised |-> "none"]
    /\ UNCHANGED <<arVars, bufVars, pool, ctorVars, persist, io>>

\* update() is called by the driving loop, once setup has given the reader
\* its stride.
lc_update ==
    /\ reader.m_batch_stride > 0
    /\ LET u == update(reader)
       IN reader' \in (IF u.ret THEN {u.rd} ELSE shuffled(u.rd))
    /\ obs' = [op |-> "update", raised |-> "none"]
    /\ UNCHANGED <<arVars, bufVars, pool, ctorVars, persist, io>>

lc_select ==
    /\ \E out \in select_subset_of_data(reader) :
          /\ reader' = out.rd
          /\ obs' = [op |-> "select_subset_of_data", raised |-> out.raised]
    /\ UNCHANGED <<arVars, bufVars, pool, ctorVars, persist, io>>

lc_use_unused ==
    /\ reader' = use_unused_index_set(reader)
    /\ obs' = [op |-> "use_unused_index_set", raised |-> "none"]
    /\ UNCHANGED <<arVars, bufVars, pool, ctorVars, persist, io>>

\* The reader once its data is loaded (the indices 0 .. N-1 in order, none
\* held out) and its options are set: batches of one sample, a tail of one.
InitLife ==
    /\ \E N \in 1 .. MaxSamples, fn \in BOOLEAN, was_set \in BOOLEAN,
          count \in 0 .. (MaxSamples + 1),
          use \in Percents \cup {Unset}, val \in Percents \cup {Unset} :
          /\ (~was_set) => count = 0
          /\ reader = [m_shuffled_indices |-> [i \in 1 .. N |-> i - 1],
                       m_unused_indices |-> <<>>,
                       m_first_n |-> fn,
                       m_max_sample_count_was_set |-> was_set,
                       m_max_sample_count |-> count,
                       m_use_percent |-> use,
                       m_validation_percent |-> val,
                       m_batch_size |-> 1,
                       m_last_mini_batch_size |-> 1,
                       m_num_mini_batches_per_reader |-> 2,
                       m_use_alt_last_mini_batch_size |-> FALSE,
                       m_current_pos |-> 0,
                       m_current_mini_batch_idx |-> 0,
                       m_num_iterations_per_epoch |-> 0,
                       m_base_offset |-> 0, m_model_offset |-> 0,
                       m_batch_stride |-> 0, m_sample_stride |-> 0,
                       m_last_mini_batch_stride |-> 0]
    /\ obs = [op |-> "none", raised |-> "none"]
    /\ persist = <<>>
    /\ IdleAllreduce
    /\ IdleBufs
    /\ pool = IdlePool
    /\ IdleCtor
    /\ IdleIo

NextLife ==
    \/ \E comm \in BOOLEAN : lc_setup(0, reader.m_batch_size, 0, comm)
    \/ lc_update
    \/ lc_select
    \/ lc_use_unused

SpecLife == InitLife /\ [][NextLife]_vars

(* ============== distributed_minibatch_parallel_io ====================== *)

IoRanks == 0 .. (io.procs_per_model - 1)

\* distributed_minibatch_parallel_io::is_current_root on rank r of the model
is_current_root(r) == r = io.rank[r].m_root

\* The root staying where it is after a step.
next_root_stays(m_root, num_parallel_readers) == m_root

\* The root after a step: the next reader rank, in a ring.
next_root(m_root, num_parallel_readers) ==
    (m_root + 1) % num_parallel_readers

\* One step of distribute_from_local_matrix on rank r, a broadcast from the
\* current root: the root hands its local tile M_local over as the next
\* column block (io.blocks lists the blocks handed over so far), every other
\* rank waits for that block; the rank appends it to its M_circ and moves
\* its root on.
distribute_from_local_matrix(r) ==
    LET me == io.rank[r]
        k == me.rotations + 1
    IN /\ me.rotations < io.m_num_valid_readers
       /\ IF is_current_root(r) THEN TRUE ELSE Len(io.blocks) >= k
       /\ LET block == IF is_current_root(r) THEN io.M_local[r]
                       ELSE io.blocks[k]
          IN io' = [io EXCEPT
                 !.blocks = IF is_current_root(r) THEN Append(@, block) ELSE @,
                 !.rank[r] = [m_root |-> next_root(me.m_root,
                                           io.m_num_parallel_readers),
                              rotations |-> k,
                              M_circ |-> me.M_circ \o block]]
       /\ UNCHANGED <<arVars, bufVars, pool, ctorVars, rdVars>>

\* The samples reader r fetched into its local matrix: n of them, each named
\* by the reader and its place in the tile.
Tile(r, n) == [j \in 1 .. n |-> <<r, j>>]

\* The ranks of one model when their coordinators are made (m_root is 0) and
\* the readers have fetched: every reader a full tile of two samples, or the
\* last valid reader a short one.
InitIo ==
    /\ \E P \in 1 .. MaxProcs :
       \E R \in 1 .. P :
       \E V \in 1 .. R, short \in BOOLEAN :
          io = [procs_per_model |-> P,
                m_num_parallel_readers |-> R,
                m_num_valid_readers |-> V,
                M_local |-> [r \in 0 .. (P - 1) |->
                               IF r >= V THEN <<>>
                               ELSE IF short /\ r = V - 1 THEN Tile(r, 1)
                               ELSE Tile(r, 2)],
                blocks |-> <<>>,
                rank |-> [r \in 0 .. (P - 1) |->
                            [m_root |-> 0, rotations |-> 0, M_circ |-> <<>>]]]
    /\ IdleAllreduce
    /\ IdleBufs
    /\ pool = IdlePool
    /\ IdleCtor
    /\ IdleReader

NextIo ==
    \E r \in IoRanks : distribute_from_local_matrix(r)

SpecIo == InitIo /\ [][NextIo]_vars

(* ============================== claims ================================= *)

AllDone == \A r \in Ranks : call[r].pc = "done"

IsPow2(n) == \E k \in 0 .. n : 2 ^ k = n
Log2(n) == CHOOSE k \in 0 .. n : 2 ^ k = n

\* The sum over the ranks of S of column c of their inputs.
RECURSIVE SumInput(_, _)
SumInput(S, c) ==
    IF S = {} THEN 0
    ELSE LET q == CHOOSE x \in S : TRUE
         IN input[q][c] + SumInput(S \ {q}, c)

\* M_0 + M_1 + ... + M_{P-1}
Reduced == [c \in 1 .. width |-> SumInput(Ranks, c)]

\* C1: once every rank of the inter-model communicator has returned from
\* intermodel_allreduce (identity encoding, SUM), every rank holds the same
\* matrix, the sum of all the ranks' inputs, for every number of models and
\* every shape.
C1_AllreduceResult ==
    (entry = "intermodel_allreduce" /\ AllDone)
        => \A r \in Ranks : mat[r] = Reduced

\* Three models, a 2 x 7 matrix whose entries differ by rank and column, all
\* ranks back from intermodel_allreduce with the sum.
C1_Witness ==
    /\ entry = "intermodel_allreduce"
    /\ nprocs = 3 /\ width = 7 /\ AllDone
    /\ input[1][2] = 8
    /\ mat[0] = Reduced /\ mat[0] # input[0]

\* C2: intermodel_allreduce runs recursive doubling exactly when num_models
\* is a power of two and height <= 64 and width <= 64, and the
\* pairwise-exchange ring in every other case; it runs nothing else.
C2_Dispatch ==
    \A r \in Ranks :
        (entry = "intermodel_allreduce" /\ call[r].pc # "idle")
            => call[r].algo =
                  (IF IsPow2(nprocs) /\ height <= 64 /\ width <= 64
                   THEN "recursive_doubling_allreduce_pow2"
                   ELSE "pe_ring_allreduce")

\* Four models and a 64 x 64 matrix: recursive doubling on the boundary.
C2_Witness ==
    /\ entry = "intermodel_allreduce"
    /\ nprocs = 4 /\ height = 64 /\ width = 64
    /\ call[0].algo = "recursive_doubling_allreduce_pow2"
    /\ call[0].pc = "done"

\* The partner of rank r in round k (from 0): the rank whose bit k differs.
RdPartner(r, k) ==
    IF (r \div (2 ^ k)) % 2 = 0 THEN r + 2 ^ k ELSE r - 2 ^ k

\* The sum of the inputs of the 2^k ranks of r's block of round k.
BlockSum(r, k) ==
    [c \in 1 .. width |->
        SumInput({q \in Ranks : q \div (2 ^ k) = r \div (2 ^ k)}, c)]

\* C3: with a power-of-two number of ranks, recursive doubling makes exactly
\* log2(nprocs) exchanges on every rank; in round k the rank sends its whole
\* current matrix (the sum over its block of 2^k ranks) to rank XOR 2^k and
\* receives from it; after the last round every rank holds the sum of all
\* the inputs.
C3_RecursiveDoubling ==
    \A r \in Ranks :
        (call[r].algo = "recursive_doubling_allreduce_pow2" /\ IsPow2(nprocs))
            => /\ Len(call[r].log) <= Log2(nprocs)
               /\ \A k \in 1 .. Len(call[r].log) :
                     /\ call[r].log[k].dst = RdPartner(r, k - 1)
                     /\ call[r].log[k].src = RdPartner(r, k - 1)
                     /\ call[r].log[k].data = BlockSum(r, k - 1)
               /\ call[r].pc = "done"
                     => /\ Len(call[r].log) = Log2(nprocs)
                        /\ mat[r] = Reduced

\* Four ranks holding 1, 2, 3, 4 all end with 10 after two rounds.
C3_Witness ==
    /\ nprocs = 4 /\ height = 1 /\ width = 1
    /\ input = [r \in Ranks |-> <<r + 1>>]
    /\ \A r \in Ranks :
          /\ call[r].algo = "recursive_doubling_allreduce_pow2"
          /\ call[r].pc = "done"
          /\ Len(call[r].log) = 2
          /\ mat[r] = <<10>>

\* C4: for every nprocs >= 2 and every width, also one that nprocs does not
\* divide or that is below nprocs, once every rank has returned from
\* pe_ring_allreduce (identity encoding, SUM) every column of every rank's
\* matrix is the sum of that column over the ranks' inputs; three ranks and
\* width 7 give the slice lengths 3, 2, 2.
C4_PeRing ==
    /\ (nprocs >= 2 /\ AllDone /\
        \A r \in Ranks : call[r].algo = "pe_ring_allreduce")
           => \A r \in Ranks : \A c \in 1 .. width :
                 mat[r][c] = SumInput(Ranks, c)
    /\ (nprocs = 3 /\ width = 7)
           => \A r \in Ranks :
                 call[r].algo = "pe_ring_allreduce"
                    => LET lens == <<3, 2, 2>>
                           log == call[r].log
                       IN /\ \A k \in 1 .. 2 :
                                k <= Len(log) =>
                                   log[k].size =
                                      height * lens[log[k].dst + 1] * ElemSize
                          /\ Len(log) >= 3
                                => log[3].size = height * lens[r + 1] * ElemSize

\* Three ranks, width 7, rank r holding r + 1 everywhere: all end with 6
\* everywhere.
C4_Witness ==
    /\ nprocs = 3 /\ width = 7
    /\ input = [r \in Ranks |-> [c \in 1 .. 7 |-> r + 1]]
    /\ \A r \in Ranks :
          /\ call[r].algo = "pe_ring_allreduce"
          /\ call[r].pc = "done"
          /\ mat[r] = [c \in 1 .. 7 |-> 6]

\* Four ranks and width 3: the slice of rank 3 is empty.
C4_WitnessEmptySlice ==
    /\ nprocs = 4 /\ width = 3 /\ AllDone
    /\ call[0].algo = "pe_ring_allreduce"
    /\ mat[3] = Reduced

\* C5: whenever a send_transform reports send_size > max_recv_count the
\* operation fails with BufferOverflow, and no message larger than
\* max_recv_count is ever sent.
C5_BufferOverflow ==
    /\ \A r \in Ranks :
          call[r].send_size > max_recv_count => call[r].pc = "BufferOverflow"
    /\ \A p \in DOMAIN chan : \A i \in 1 .. Len(chan[p]) :
          chan[p][i].size <= max_recv_count

\* C6: the constructor throws whenever procs_per_model > world_size or
\* world_size mod procs_per_model # 0, and then no model, inter-model or
\* node communicator exists; it does not fail when procs_per_model is a
\* positive divisor of world_size.
C6_InvalidTopology ==
    \A r \in WorldRanks :
        ctor[r].pc # "start"
            => /\ (ppm_arg # 0 /\
                   (ppm_arg > world_size \/
                    world_size - ppm_arg * CDiv(world_size, ppm_arg) # 0))
                      => /\ ctor[r].pc = "throw"
                         /\ ctor[r].model_comm = NoComm
                         /\ ctor[r].intermodel_comm = NoComm
                         /\ ctor[r].node_comm = NoComm
               /\ (ppm_arg >= 1 /\ world_size % ppm_arg = 0)
                      => ctor[r].pc \notin {"throw", "mpi_error"}

\* World size 4 and procs_per_model 3: every rank has thrown.
C6_Witness ==
    /\ world_size = 4 /\ ppm_arg = 3
    /\ \A r \in WorldRanks : ctor[r].pc = "throw"

\* World size 4 and procs_per_model 2: every rank is constructed.
C6_WitnessValid ==
    /\ world_size = 4 /\ ppm_arg = 2
    /\ \A r \in WorldRanks : ctor[r].pc = "constructed"

\* C7: with procs_per_model dividing world_size, model_rank = world_rank div
\* procs_per_model and rank_in_model = world_rank mod procs_per_model; the
\* model communicator of a rank holds exactly the ranks of its model_rank,
\* the inter-model communicator exactly the ranks of its rank_in_model (so
\* each family partitions the world); the rank's position in the first is
\* rank_in_model and in the second model_rank.
C7_Topology ==
    \A r \in WorldRanks :
        LET c == ctor[r]
            ppm == c.procs_per_model
        IN (ppm >= 1 /\ world_size % ppm = 0) =>
           /\ Stage(c.pc) >= 1
                 => /\ c.model_rank = r \div ppm
                    /\ c.rank_in_model = r % ppm
           /\ Stage(c.pc) >= 2
                 => /\ Range(c.model_comm) =
                          {q \in WorldRanks : q \div ppm = r \div ppm}
                    /\ Len(c.model_comm) = ppm
                    /\ RankIn(c.model_comm, r) = r % ppm
           /\ Stage(c.pc) >= 3
                 => /\ Range(c.intermodel_comm) =
                          {q \in WorldRanks : q % ppm = r % ppm}
                    /\ Len(c.intermodel_comm) = world_size \div ppm
                    /\ RankIn(c.intermodel_comm, r) = r \div ppm

\* Four ranks in two models of two: rank 3 is with rank 2 in its model and
\* with rank 1 across the models.
C7_Witness ==
    /\ world_size = 4 /\ ppm_arg = 2
    /\ \A r \in WorldRanks : ctor[r].pc = "constructed"
    /\ ctor[3].model_comm = <<2, 3>>
    /\ ctor[3].intermodel_comm = <<1, 3>>

\* C8: get_collective_buffer(size, idx) with len buffers in the bucket:
\* idx < len returns the existing buffer and leaves the pool; idx = len
\* appends one buffer and returns it; idx > len fails with
\* InvalidBufferIndex and leaves the pool.
C8_GetBuffer ==
    (pool.alive /\ pool.last.called) =>
        LET l == pool.last
            now == collective_bufs[0]
        IN /\ l.idx < l.len
                 => /\ l.ret = l.before[l.size][l.idx + 1]
                    /\ now = l.before
           /\ l.idx = l.len
                 => /\ l.ret # NullPtr
                    /\ now = Extend(l.before, l.size,
                                    IF l.len = 0 THEN <<l.ret>>
                                    ELSE Append(l.before[l.size], l.ret))
           /\ l.idx > l.len
                 => /\ l.raised = "InvalidBufferIndex"
                    /\ now = l.before

\* C9: while the communicator lives no buffer is freed or replaced: the
\* buffer a call returned for (size, idx) stays slot idx of the bucket for
\* size, whatever is called next, and a later call for the same (size, idx)
\* returns it again.
C9_BuffersStable ==
    pool.alive =>
        /\ pool.freed = {}
        /\ \A k \in DOMAIN pool.handed :
              /\ k[1] \in DOMAIN collective_bufs[0]
              /\ k[2] < Len(collective_bufs[0][k[1]])
              /\ collective_bufs[0][k[1]][k[2] + 1] = pool.handed[k]
              /\ pool.handed[k] \in DOMAIN heap[0]
        /\ (pool.last.called /\ pool.last.ret # NullPtr)
              => pool.last.ret = pool.handed[<<pool.last.size, pool.last.idx>>]
        /\ \A k1, k2 \in DOMAIN pool.handed :
              k1 # k2 => pool.handed[k1] # pool.handed[k2]

\* Slot 1 of a size is asked for again after buffers of both sizes exist.
C9_Witness ==
    /\ pool.alive /\ pool.last.called
    /\ pool.last.idx = 1 /\ pool.last.len = 2
    /\ Cardinality(DOMAIN heap[0]) >= 4
    /\ pool.last.ret = pool.handed[<<pool.last.size, 1>>]

\* The reader is set up as the only reader of its data: no offset, and both
\* strides the batch size.
SingleReader ==
    /\ reader.m_base_offset = 0 /\ reader.m_model_offset = 0
    /\ reader.m_batch_stride = reader.m_batch_size
    /\ reader.m_last_mini_batch_stride = reader.m_batch_size

\* num_mini_batches_per_reader and last_mini_batch_size fit the data:
\* n = ceil(N / B) minibatches, the last of N - (n - 1) B samples.
TailConfigured ==
    LET N == Len(reader.m_shuffled_indices)
        B == reader.m_batch_size
        n == reader.m_num_mini_batches_per_reader
    IN /\ (n - 1) * B < N /\ N <= n * B
       /\ reader.m_last_mini_batch_size = N - (n - 1) * B

Advanced(rd) ==
    rd.m_current_pos +
       (IF /\ rd.m_use_alt_last_mini_batch_size
           /\ rd.m_current_mini_batch_idx + 1 >=
                 rd.m_num_mini_batches_per_reader - 1
        THEN rd.m_last_mini_batch_stride
        ELSE rd.m_batch_stride)

\* C11: update() advances current_pos by last_mini_batch_stride only when
\* the alternate tail is enabled and the minibatch being finished is the
\* penultimate one (current_mini_batch_idx + 1 =
\* num_mini_batches_per_reader - 1), and by batch_stride in every other
\* call; the advanced position decides whether the epoch goes on.
C11_PenultimateStride ==
    [][rd_update =>
         LET penultimate ==
                 /\ reader.m_use_alt_last_mini_batch_size
                 /\ reader.m_current_mini_batch_idx + 1 =
                       reader.m_num_mini_batches_per_reader - 1
             adv == reader.m_current_pos +
                       (IF penultimate THEN reader.m_last_mini_batch_stride
                        ELSE reader.m_batch_stride)
         IN IF adv < Len(reader.m_shuffled_indices)
            THEN obs'.ret = "true" /\ reader'.m_current_pos = adv
            ELSE obs'.ret = "false"]_vars

\* Two sequences of distinct indices hold the same indices.
SameIndices(a, b) == Len(a) = Len(b) /\ Range(a) = Range(b)

\* C12 as stated: update() returns true and adds one to
\* current_mini_batch_idx while the advanced position is below |shuffled|;
\* otherwise it returns false, reshuffles unless first_n is set, and resets
\* current_pos and current_mini_batch_idx to zero, whatever the offsets.
C12_WrapResetsToZero ==
    [][rd_update =>
         IF Advanced(reader) < Len(reader.m_shuffled_indices)
         THEN /\ obs'.ret = "true"
              /\ reader'.m_current_mini_batch_idx =
                    reader.m_current_mini_batch_idx + 1
              /\ reader'.m_shuffled_indices = reader.m_shuffled_indices
         ELSE /\ obs'.ret = "false"
              /\ SameIndices(reader'.m_shuffled_indices,
                             reader.m_shuffled_indices)
              /\ reader.m_first_n
                    => reader'.m_shuffled_indices = reader.m_shuffled_indices
              /\ reader'.m_current_mini_batch_idx = 0
              /\ reader'.m_current_pos = 0]_vars

\* C12 amended: as stated, but on the wrap current_pos goes back to
\* base_offset + model_offset, the position setup gave the reader.
C12_WrapResets ==
    [][rd_update =>
         IF Advanced(reader) < Len(reader.m_shuffled_indices)
         THEN /\ obs'.ret = "true"
              /\ reader'.m_current_mini_batch_idx =
                    reader.m_current_mini_batch_idx + 1
              /\ reader'.m_current_pos = Advanced(reader)
              /\ reader'.m_shuffled_indices = reader.m_shuffled_indices
         ELSE /\ obs'.ret = "false"
              /\ SameIndices(reader'.m_shuffled_indices,
                             reader.m_shuffled_indices)
              /\ reader.m_first_n
                    => reader'.m_shuffled_indices = reader.m_shuffled_indices
              /\ reader'.m_current_mini_batch_idx = 0
              /\ reader'.m_current_pos =
                    reader.m_base_offset + reader.m_model_offset]_vars

\* An epoch of two minibatches has ended for a reader with an offset: it is
\* back at its offset with index 0, the indices reordered.
C12_Witness ==
    /\ obs.started /\ obs.ret = "false" /\ Len(obs.sizes) = 2
    /\ reader.m_base_offset = 1 /\ reader.m_model_offset = 0
    /\ reader.m_current_pos = 1
    /\ reader.m_current_mini_batch_idx = 0
    /\ ~reader.m_first_n
    /\ reader.m_shuffled_indices = <<2, 0, 1>>

\* C13: get_batch_size() returns last_mini_batch_size exactly when the
\* alternate tail is enabled and current_mini_batch_idx >=
\* num_mini_batches_per_reader - 1, and batch_size in every other state;
\* right after an epoch wrap, with num_mini_batches_per_reader >= 2, it
\* returns batch_size.
C13_BatchSize ==
    /\ [][rd_update =>
            obs'.sizes[Len(obs'.sizes)] =
               (IF /\ reader.m_use_alt_last_mini_batch_size
                   /\ reader.m_current_mini_batch_idx >=
                         reader.m_num_mini_batches_per_reader - 1
                THEN reader.m_last_mini_batch_size
                ELSE reader.m_batch_size)]_vars
    /\ []((obs.started /\ obs.ret = "false" /\
           reader.m_num_mini_batches_per_reader >= 2)
             => getm_batch_size(reader) = reader.m_batch_size)

\* With the tail enabled, two minibatches per reader and a tail of one
\* sample, an epoch saw a batch of two and then the tail, and has wrapped.
C13_Witness ==
    /\ obs.started /\ obs.ret = "false"
    /\ reader.m_use_alt_last_mini_batch_size
    /\ reader.m_num_mini_batches_per_reader = 2
    /\ reader.m_batch_size = 2 /\ reader.m_last_mini_batch_size = 1
    /\ obs.sizes = <<2, 1>>
    /\ reader.m_current_mini_batch_idx = 0

\* C20: after setup and any number of update() calls,
\* 0 <= current_pos < |shuffled| + batch_stride, whatever the offsets and
\* strides of the reader.
C20_PositionInRange ==
    obs.started =>
        /\ 0 <= reader.m_current_pos
        /\ reader.m_current_pos <
              Len(reader.m_shuffled_indices) + reader.m_batch_stride

\* The last call was a select_subset_of_data that returned.
Selected == obs.op = "select_subset_of_data" /\ obs.raised = "none"

\* The number of indices the truncation of a call on rd leaves.
KeptCount(rd) ==
    LET N == Len(rd.m_shuffled_indices)
    IN IF rd.m_max_sample_count_was_set THEN rd.m_max_sample_count
       ELSE IF rd.m_use_percent # Unset
            THEN (rd.m_use_percent * N) \div 100
            ELSE N

\* The number of indices the split of a call on rd moves to unused.
HeldCount(rd) ==
    IF rd.m_validation_percent # Unset
    THEN (rd.m_validation_percent * KeptCount(rd)) \div 100
    ELSE 0

\* No index occurs twice in q.
Distinct(q) == Cardinality(Range(q)) = Len(q)

\* C14: select_subset_of_data truncates first and then splits: shuffled is
\* cut to max_sample_count if set, else to use_percent x N if set; then
\* validation_percent of the remaining count is moved from the tail of
\* shuffled into unused; 100 samples with use_percent 0.5 and
\* validation_percent 0.2 leave 40 and 10; no index ends in both.
C14_TruncateThenSplit ==
    Selected =>
        LET pre == obs.pre
            kept == KeptCount(pre)
            held == HeldCount(pre)
        IN /\ Len(reader.m_shuffled_indices) = kept - held
           /\ held > 0 => Len(reader.m_unused_indices) = held
           /\ held = 0 =>
                 SameIndices(reader.m_unused_indices, pre.m_unused_indices)
           /\ Range(reader.m_shuffled_indices)
                 \subseteq Range(pre.m_shuffled_indices)
           /\ held > 0 => Range(reader.m_unused_indices)
                             \subseteq Range(pre.m_shuffled_indices)
           /\ pre.m_first_n =>
                 /\ reader.m_shuffled_indices =
                       SubSeq(pre.m_shuffled_indices, 1, kept - held)
                 /\ held > 0 => reader.m_unused_indices =
                       SubSeq(pre.m_shuffled_indices, kept - held + 1, kept)
           /\ Range(reader.m_shuffled_indices)
                 \cap Range(reader.m_unused_indices) = {}
           /\ Distinct(reader.m_shuffled_indices)
           /\ Distinct(reader.m_unused_indices)
           /\ (/\ Len(pre.m_shuffled_indices) = 100
               /\ ~pre.m_max_sample_count_was_set
               /\ pre.m_use_percent = 50 /\ pre.m_validation_percent = 20)
                 => /\ Len(reader.m_shuffled_indices) = 40
                    /\ Len(reader.m_unused_indices) = 10

\* The example: 100 samples, use_percent 0.5, validation_percent 0.2.
C14_Witness ==
    /\ Selected
    /\ Len(obs.pre.m_shuffled_indices) = 100
    /\ ~obs.pre.m_max_sample_count_was_set
    /\ obs.pre.m_use_percent = 50 /\ obs.pre.m_validation_percent = 20
    /\ Len(reader.m_shuffled_indices) = 40
    /\ reader.m_unused_indices = [i \in 1 .. 10 |-> 39 + i]

\* Three shuffled samples, max_sample_count 2 taking precedence over
\* use_percent 0.5, half of the two (one) held out.
C14_WitnessPrecedence ==
    /\ Selected /\ ~obs.pre.m_first_n
    /\ Len(obs.pre.m_shuffled_indices) = 3
    /\ obs.pre.m_max_sample_count_was_set /\ obs.pre.m_max_sample_count = 2
    /\ obs.pre.m_use_percent = 50 /\ obs.pre.m_validation_percent = 50
    /\ reader.m_shuffled_indices = <<2>>
    /\ reader.m_unused_indices = <<0>>

\* C15: select_subset_of_data fails whenever max_sample_count is set and
\* greater than the number of samples, and then shuffled holds the same
\* indices (and as many) as before and unused is as before; with
\* max_sample_count <= N it does not fail.
C15_SubsetTooLarge ==
    obs.op = "select_subset_of_data" =>
        LET pre == obs.pre
        IN /\ (obs.raised # "none") <=>
                 (/\ pre.m_max_sample_count_was_set
                  /\ pre.m_max_sample_count > Len(pre.m_shuffled_indices))
           /\ obs.raised # "none" =>
                 /\ SameIndices(reader.m_shuffled_indices,
                                pre.m_shuffled_indices)
                 /\ reader.m_unused_indices = pre.m_unused_indices

\* max_sample_count 4 for three samples: the call has failed, after its
\* shuffle.
C15_Witness ==
    /\ obs.op = "select_subset_of_data" /\ obs.raised = "lbann_exception"
    /\ obs.pre.m_max_sample_count = 4
    /\ obs.pre.m_shuffled_indices = <<0, 1, 2>>
    /\ reader.m_shuffled_indices = <<2, 0, 1>>

\* C16: after use_unused_index_set() shuffled is the sequence unused was
\* and unused is empty; what shuffled held is in neither; a second call in
\* a row leaves shuffled empty.
C16_UseUnused ==
    obs.op = "use_unused_index_set" =>
        /\ reader.m_shuffled_indices = obs.pre.m_unused_indices
        /\ reader.m_unused_indices = <<>>
        /\ Range(obs.pre.m_shuffled_indices)
              \cap (Range(reader.m_shuffled_indices)
                      \cup Range(reader.m_unused_indices)) = {}
        /\ obs.streak = 2 => reader.m_shuffled_indices = <<>>

\* A held-out index has become the data, and the two kept ones are gone.
C16_Witness ==
    /\ obs.op = "use_unused_index_set" /\ obs.streak = 1
    /\ obs.pre.m_shuffled_indices = <<0, 1>>
    /\ obs.pre.m_unused_indices = <<2>>
    /\ reader.m_shuffled_indices = <<2>>
    /\ reader.m_unused_indices = <<>>

\* use_unused_index_set() has been called twice in a row after a split.
C16_WitnessTwice ==
    /\ obs.op = "use_unused_index_set" /\ obs.streak = 2
    /\ obs.pre.m_shuffled_indices # <<>>
    /\ reader.m_shuffled_indices = <<>>

\* The three members a checkpoint restores, of a reader.
Shuffling(rd) ==
    <<rd.m_current_pos, rd.m_current_mini_batch_idx, rd.m_shuffled_indices>>

\* C17: on every rank, after saveToCheckpointShared and then
\* loadFromCheckpointShared, current_pos, current_mini_batch_idx and
\* shuffled are what that rank had when it saved, also when the ranks were
\* at different positions.
C17_RoundTrip ==
    \A r \in CkptRanks :
        persist.pc[r] = "loaded"
            => Shuffling(persist.rd[r]) = Shuffling(persist.saved[r])

\* Every rank has returned from loadFromCheckpointShared.
AllLoaded == \A r \in CkptRanks : persist.pc[r] = "loaded"

\* C18: once loadFromCheckpointShared has returned on all ranks, every rank
\* has the current_mini_batch_idx, current_pos, number of indices and
\* indices the root read from the checkpoint, whatever it held before; a
\* rank other than the root has its index vector at data_size when the
\* indices are broadcast.
C18_LoadAgrees ==
    /\ AllLoaded =>
          \A r \in CkptRanks :
             /\ persist.rd[r].m_current_mini_batch_idx =
                   ToInt(persist.file.current_mini_batch_idx)
             /\ persist.rd[r].m_current_pos = ToInt(persist.file.data_position)
             /\ Len(persist.rd[r].m_shuffled_indices) =
                   ToInt(persist.file.data_size)
             /\ persist.rd[r].m_shuffled_indices = persist.file.data_indices
             /\ persist.rd[r] = persist.rd[0]
    /\ \A r \in CkptRanks :
          (r # 0 /\ persist.pc[r] = "bcast_indices")
             => Len(persist.rd[r].m_shuffled_indices) =
                   ToInt(persist.file.data_size)

\* Rank 1 came to the load with three indices in its own order and a
\* position of its own; both ranks now hold what rank 0 saved.
C18_Witness ==
    /\ persist.world = 2 /\ AllLoaded
    /\ persist.prelen[1] = 3
    /\ persist.saved[0].m_shuffled_indices = <<1, 0>>
    /\ persist.saved[0].m_current_pos = 1
    /\ persist.rd[1].m_shuffled_indices = <<1, 0>>
    /\ persist.rd[1].m_current_pos = 1
    /\ persist.rd[1].m_current_mini_batch_idx = 1

\* The bytes of the messages rank r's SendRecv calls sent.
RECURSIVE LogBytes(_)
LogBytes(log) == IF log = <<>> THEN 0 ELSE Head(log).size + LogBytes(Tail(log))

\* C19: every call that moves a matrix (intermodel_sum_matrix,
\* intermodel_broadcast_matrix, the allreduce algorithms) adds the element
\* count x element size of the view it moves to bytes_sent and/or
\* bytes_received: a returned intermodel_sum_matrix or
\* intermodel_broadcast_matrix among two or more ranks has counted its
\* bytes, an allreduce has counted every view it sent; no counter is ever
\* below zero.
C19_BytesCounted ==
    \A r \in Ranks :
        /\ bytes_sent[r] >= 0 /\ bytes_received[r] >= 0
        /\ (call[r].pc = "done" /\ entry \in FacadeEntries /\ nprocs >= 2)
              => \/ bytes_sent[r] = MatBytes
                 \/ bytes_received[r] = MatBytes
        /\ (call[r].pc = "done" /\ entry \in Entries)
              => /\ bytes_sent[r] = LogBytes(call[r].log)
                 /\ \A k \in 1 .. Len(call[r].log) :
                       call[r].log[k].size =
                          ElemSize * height * Len(call[r].log[k].data)

\* C21: over any sequence of setup, update, select_subset_of_data and
\* use_unused_index_set, started from distinct indices with none held out,
\* no index is both in m_shuffled_indices and in m_unused_indices (and the
\* indices of each stay distinct), and setup and update leave the same
\* indices in m_shuffled_indices, in some order, and the held-out ones alone.
C21_IndexSets ==
    /\ [][obs'.op \in {"setup", "update"} =>
            /\ SameIndices(reader'.m_shuffled_indices,
                           reader.m_shuffled_indices)
            /\ reader'.m_unused_indices = reader.m_unused_indices]_vars
    /\ [](/\ Range(reader.m_shuffled_indices)
               \cap Range(reader.m_unused_indices) = {}
          /\ Distinct(reader.m_shuffled_indices)
          /\ Distinct(reader.m_unused_indices))

\* select_subset_of_data has held one index out and kept one (a further
\* call, whose validation share of the one kept rounds to zero, leaves both
\* where they are), and update has wrapped over the one kept.
C21_Witness ==
    /\ obs.op = "update"
    /\ reader.m_validation_percent = 50
    /\ Len(reader.m_shuffled_indices) = 1
    /\ Len(reader.m_unused_indices) = 1
    /\ reader.m_current_mini_batch_idx = 0
    /\ reader.m_batch_stride = 1

RECURSIVE Assembled(_)
\* The tiles of readers 0 .. n-1, one after the other.
Assembled(n) ==
    IF n = 0 THEN <<>> ELSE Assembled(n - 1) \o io.M_local[n - 1]

\* C22: in distribute_from_local_matrix the root goes round the reader
\* ranks: a rank that has made k rotations has m_root = k mod
\* num_parallel_readers, so the ranks at the same step agree on the root and
\* exactly one rank of the model is that root; each rotation moves m_root to
\* (m_root + 1) mod num_parallel_readers and adds the root's tile as the
\* next column block; after num_valid_readers rotations a rank holds the
\* tiles of reader 0, reader 1, ... in that order.
C22_RootRotation ==
    /\ [][\A r \in IoRanks :
            io'.rank[r] # io.rank[r] =>
               /\ io'.rank[r].m_root =
                     (io.rank[r].m_root + 1) % io.m_num_parallel_readers
               /\ io'.rank[r].M_circ =
                     io.rank[r].M_circ \o io.M_local[io.rank[r].m_root]]_vars
    /\ [](\A r \in IoRanks :
            /\ io.rank[r].m_root =
                  io.rank[r].rotations % io.m_num_parallel_readers
            /\ Cardinality({q \in IoRanks : q = io.rank[r].m_root}) = 1
            /\ io.rank[r].M_circ = Assembled(io.rank[r].rotations)
            /\ io.rank[r].rotations = io.m_num_valid_readers
                  => io.rank[r].M_circ = Assembled(io.m_num_valid_readers))

\* Three ranks, two of them readers, the second with a short tile: all have
\* made both rotations and hold the three samples in reader order.
C22_Witness ==
    /\ io.procs_per_model = 3
    /\ io.m_num_valid_readers = 2
    /\ \A r \in IoRanks :
          /\ io.rank[r].rotations = 2
          /\ io.rank[r].M_circ = <<<<0, 1>>, <<0, 2>>, <<1, 1>>>>

\* Column c (from 1) lies in slice i.
InSlice(c, i) ==
    c > SliceLo(width, nprocs, i) /\ c <= SliceHi(width, nprocs, i)

\* C23: pe_ring_allreduce cuts the columns into nprocs contiguous, disjoint
\* slices covering [0, W), slice i of floor(W/nprocs) columns and one more
\* when i < W mod nprocs; in reduce-scatter step s = 1 .. nprocs-1 rank r
\* sends slice (r+s) mod nprocs as it was in its input and receives from
\* (r-s) mod nprocs; while the phase runs, slice r on rank r is the sum of
\* the inputs of r and of the ranks received from so far, each once; after
\* the phase it is the sum over all ranks, and the other slices on rank r
\* still hold rank r's input.
C23_ReduceScatter ==
    \A r \in Ranks :
        call[r].algo = "pe_ring_allreduce"
            => /\ SliceLo(width, nprocs, 0) = 0
               /\ SliceHi(width, nprocs, nprocs - 1) = width
               /\ \A i \in Ranks :
                     /\ SliceHi(width, nprocs, i) - SliceLo(width, nprocs, i)
                           = (width \div nprocs)
                               + (IF i < width % nprocs THEN 1 ELSE 0)
                     /\ i > 0 => SliceLo(width, nprocs, i)
                                    = SliceHi(width, nprocs, i - 1)
               /\ \A s \in 1 .. (nprocs - 1) :
                     s <= Len(call[r].log)
                        => LET e == call[r].log[s]
                               d == (r + s) % nprocs
                           IN /\ e.dst = d
                              /\ e.src = (r - s + nprocs) % nprocs
                              /\ e.data = View(input[r],
                                               SliceLo(width, nprocs, d),
                                               SliceHi(width, nprocs, d))
               /\ call[r].pc \in {"rs_recv", "ag0_recv"}
                     => LET n == IF call[r].pc = "rs_recv"
                                 THEN Len(call[r].log) ELSE nprocs
                            got == {(r - j + nprocs) % nprocs :
                                       j \in 0 .. (n - 1)}
                        IN \A c \in 1 .. width :
                              mat[r][c] = IF InSlice(c, r)
                                          THEN SumInput(got, c)
                                          ELSE input[r][c]

\* Three ranks, width 7, inputs that tell rank and column apart: rank 1 has
\* finished the reduce-scatter, its slice (columns 4 and 5) holds the sums
\* and the rest is its input.
C23_Witness ==
    /\ nprocs = 3 /\ width = 7
    /\ input[1][4] = 16
    /\ call[1].algo = "pe_ring_allreduce"
    /\ call[1].pc = "ag0_recv"
    /\ mat[1] = <<4, 8, 12, 84, 105, 24, 28>>

NoMessages == \A p \in DOMAIN chan : chan[p] = <<>>

\* C24: recursive_doubling_allreduce_pow2 called on a communicator whose
\* size is not a power of two returns at once: the rank's matrix, bytes_sent,
\* bytes_received and buffer pool are as before the call, and it has entered
\* no SendRecv; no message is in flight.
C24_NotPow2Returns ==
    (entry = "recursive_doubling_allreduce_pow2" /\ ~IsPow2(nprocs))
        => /\ NoMessages
           /\ \A r \in Ranks :
                 call[r].pc # "idle"
                    => /\ call[r].pc = "done"
                       /\ call[r].log = <<>>
                       /\ mat[r] = input[r]
                       /\ bytes_sent[r] = 0
                       /\ bytes_received[r] = 0
                       /\ collective_bufs[r] = <<>>
                       /\ heap[r] = <<>>

\* Three ranks with a 2 x 7 matrix have all called
\* recursive_doubling_allreduce_pow2 and returned.
C24_Witness ==
    /\ entry = "recursive_doubling_allreduce_pow2"
    /\ nprocs = 3 /\ height = 2 /\ width = 7
    /\ AllDone
    /\ \A r \in Ranks : call[r].algo = "recursive_doubling_allreduce_pow2"

\* A reader in distributed mode, the only one of its data, whose n
\* minibatches fit the data: |shuffled| = (n-1) x batch_size +
\* last_mini_batch_size, with a tail no longer than a batch.
DistributedEpoch ==
    /\ obs.started
    /\ reader.m_use_alt_last_mini_batch_size
    /\ SingleReader
    /\ TailConfigured

\* The sizes of n minibatches: batch_size n-1 times, then the tail.
EpochSizes(n) ==
    [k \in 1 .. n |-> IF k < n THEN reader.m_batch_size
                      ELSE reader.m_last_mini_batch_size]

\* C25 as stated: the first n update() calls of the epoch return true and
\* the (n+1)-th returns false.
C25_FalseOnCallAfterN ==
    (DistributedEpoch /\ obs.ret = "false")
        => Len(obs.sizes) = reader.m_num_mini_batches_per_reader + 1

\* C25 amended: the epoch has n minibatches whose get_batch_size() values
\* are batch_size (n-1 times) then last_mini_batch_size; the update() calls
\* that end the first n-1 of them return true, and the n-th call, which ends
\* the last minibatch, returns false and resets current_mini_batch_idx and
\* current_pos.
C25_EpochOfN ==
    LET n == reader.m_num_mini_batches_per_reader
    IN /\ (DistributedEpoch /\ obs.ret = "true")
             => /\ Len(obs.sizes) <= n - 1
                /\ obs.sizes = SubSeq(EpochSizes(n), 1, Len(obs.sizes))
                /\ reader.m_current_mini_batch_idx = Len(obs.sizes)
       /\ (DistributedEpoch /\ obs.ret = "false")
             => /\ obs.sizes = EpochSizes(n)
                /\ reader.m_current_mini_batch_idx = 0
                /\ reader.m_current_pos = 0

\* Three samples in three minibatches of one: the third update() has
\* returned false.
C25_Witness ==
    /\ DistributedEpoch /\ obs.ret = "false"
    /\ reader.m_num_mini_batches_per_reader = 3
    /\ Len(reader.m_shuffled_indices) = 3
    /\ obs.sizes = <<1, 1, 1>>

\* Three samples in batches of two with a tail of one: the first update()
\* has returned true, the second false.
C25_WitnessTail ==
    /\ DistributedEpoch /\ obs.ret = "false"
    /\ reader.m_num_mini_batches_per_reader = 2
    /\ reader.m_batch_size = 2
    /\ obs.sizes = <<2, 1>>

\* The sequence q of ranks is in increasing order.
Increasing(q) == \A i, j \in 1 .. Len(q) : i < j => q[i] < q[j]

\* C26: once the constructor has returned on a rank, its node communicator
\* holds exactly the ranks that report the same host string, also when
\* another host string has the same hash, in the order of their world
\* ranks; so two constructed ranks are in the same node communicator if and
\* only if their host strings are equal, and the node communicators
\* partition the world.
C26_NodeComm ==
    \A r \in WorldRanks :
        ctor[r].pc = "constructed"
            => /\ Range(ctor[r].node_comm) =
                     {q \in WorldRanks : node_name[q] = node_name[r]}
               /\ Increasing(ctor[r].node_comm)
               /\ \A q \in WorldRanks :
                     ctor[q].pc = "constructed"
                        => /\ (node_name[q] = node_name[r])
                                 <=> (ctor[q].node_comm = ctor[r].node_comm)
                           /\ (node_name[q] # node_name[r])
                                 => Range(ctor[q].node_comm)
                                       \cap Range(ctor[r].node_comm) = {}

\* Four ranks on three hosts, two of which have the same hash: ranks 0 and 2
\* share a node communicator, rank 1 (same hash, other host) is alone.
C26_Witness ==
    /\ world_size = 4
    /\ node_name[0] = "node-a" /\ node_name[1] = "node-b"
    /\ node_name[2] = "node-a" /\ node_name[3] = "node-c"
    /\ \A r \in WorldRanks : ctor[r].pc = "constructed"
    /\ ctor[0].hash = ctor[1].hash
    /\ ctor[0].node_comm = <<0, 2>>
    /\ ctor[1].node_comm = <<1>>
    /\ ctor[3].node_comm = <<3>>

\* max_recv_count is large enough for the whole matrix.
Fits == max_recv_count >= height * width * ElemSize

\* The exchanges pair up: the k-th SendRecv of rank r names valid ranks, the
\* rank it sends to receives from r in its own k-th SendRecv, and the rank
\* it receives from sends to r.
PairsMatch ==
    \A r \in Ranks : \A k \in 1 .. Len(call[r].log) :
        LET e == call[r].log[k]
        IN /\ e.dst \in Ranks /\ e.src \in Ranks
           /\ Len(call[e.dst].log) >= k => call[e.dst].log[k].src = r
           /\ Len(call[e.src].log) >= k => call[e.src].log[k].dst = r

\* The number of exchanges the claim gives each algorithm.
ExchangesOf(algo) ==
    IF algo = "recursive_doubling_allreduce_pow2"
    THEN Log2(nprocs) ELSE 2 * (nprocs - 1)

\* C27: when all ranks call intermodel_allreduce with matrices of the same
\* shape and buffers that fit, the send/receive pairs match at every step
\* and a rank that has returned has made exactly log2(nprocs) exchanges
\* (recursive doubling) or 2 x (nprocs - 1) exchanges (PE ring).
C27_PairsAndCounts ==
    (entry = "intermodel_allreduce" /\ Fits)
        => /\ PairsMatch
           /\ \A r \in Ranks :
                 call[r].pc = "done"
                    => Len(call[r].log) = ExchangesOf(call[r].algo)

\* Rank r can take a step: it has yet to call, or the message its SendRecv
\* waits for has been sent.
CanStep(r) ==
    \/ call[r].pc = "idle"
    \/ /\ call[r].pc \in {"rd_recv", "rs_recv", "ag0_recv", "ag_recv"}
       /\ chan[<<call[r].src, r>>] # <<>>

\* With buffers that fit, no rank is aborted and the ranks never all wait:
\* until every rank has returned, some rank can take a step (and each step
\* posts a send, completes a receive or returns, so every rank returns in
\* the end).
NoRankStuck ==
    (entry = "intermodel_allreduce" /\ Fits)
        => /\ \A r \in Ranks : call[r].pc # "abort"
           /\ AllDone \/ \E r \in Ranks : CanStep(r)

\* The pairs match for every number of ranks, and the counts are the
\* claim's for two ranks or more.
PairsAndCountsFromTwo ==
    (entry = "intermodel_allreduce" /\ Fits)
        => /\ PairsMatch
           /\ \A r \in Ranks :
                 (call[r].pc = "done" /\ nprocs >= 2)
                    => Len(call[r].log) = ExchangesOf(call[r].algo)

\* C28: with a single model intermodel_allreduce is a no-op for every
\* shape, at most 64 x 64 or larger: the rank enters no SendRecv, no message
\* is in flight, and once it has returned its matrix, bytes_sent and
\* bytes_received are as before the call.
C28_SingleModelNoOp ==
    (entry = "intermodel_allreduce" /\ nprocs = 1)
        => /\ NoMessages
           /\ call[0].log = <<>>
           /\ call[0].pc \in {"idle", "done"}
           /\ mat[0] = input[0]
           /\ bytes_sent[0] = 0
           /\ bytes_received[0] = 0

\* C29: for every procs_per_model argument, 0 and negative ones included,
\* a rank on which the constructor has returned has procs_per_model >= 1,
\* num_models >= 1, num_models x procs_per_model = world_size, 0 <=
\* model_rank < num_models and 0 <= rank_in_model < procs_per_model; an
\* argument of 0 gives procs_per_model = world_size.
C29_ValidTopology ==
    \A r \in WorldRanks :
        ctor[r].pc = "constructed"
            => LET c == ctor[r]
               IN /\ c.procs_per_model >= 1
                  /\ c.num_models >= 1
                  /\ c.num_models * c.procs_per_model = world_size
                  /\ 0 <= c.model_rank /\ c.model_rank < c.num_models
                  /\ 0 <= c.rank_in_model
                  /\ c.rank_in_model < c.procs_per_model
                  /\ ppm_arg = 0 => c.procs_per_model = world_size

\* The same for the arguments that are not negative.
ValidTopologyFromZero ==
    \A r \in WorldRanks :
        (ctor[r].pc = "constructed" /\ ppm_arg >= 0)
            => LET c == ctor[r]
               IN /\ c.procs_per_model >= 1
                  /\ c.num_models >= 1
                  /\ c.num_models * c.procs_per_model = world_size
                  /\ 0 <= c.model_rank /\ c.model_rank < c.num_models
                  /\ 0 <= c.rank_in_model
                  /\ c.rank_in_model < c.procs_per_model
                  /\ ppm_arg = 0 => c.procs_per_model = world_size

\* C30: ring_allreduce and pe_ring_allreduce are interchangeable: for two
\* ranks or more and every width, once every rank has returned from either
\* (identity encoding, SUM) every rank holds the sum of the inputs, so the
\* same matrix whichever of the two ran; and a rank of ring_allreduce that
\* has made its nprocs-1 reduce-scatter steps holds the fully reduced slice
\* rank + 1, which puts slice k on rank (k + nprocs - 1) mod nprocs.
C30_RingsAgree ==
    /\ (nprocs >= 2 /\ entry \in RingEntries /\ AllDone)
          => \A r \in Ranks : mat[r] = Reduced
    /\ \A k \in Ranks :
          LET r == (k + nprocs - 1) % nprocs
          IN (nprocs >= 2 /\ call[r].pc = "ring_ag0_recv")
                => \A c \in 1 .. width :
                      InSlice(c, k) => mat[r][c] = SumInput(Ranks, c)

\* Three ranks, width 7: all have returned from ring_allreduce with the sum.
C30_Witness ==
    /\ entry = "ring_allreduce"
    /\ nprocs = 3 /\ width = 7 /\ AllDone
    /\ input[1][4] = 16
    /\ \A r \in Ranks : mat[r] = Reduced /\ mat[r] # input[r]

\* The same call and inputs with pe_ring_allreduce.
C30_WitnessPe ==
    /\ entry = "pe_ring_allreduce"
    /\ nprocs = 3 /\ width = 7 /\ AllDone
    /\ input[1][4] = 16
    /\ \A r \in Ranks : mat[r] = Reduced /\ mat[r] # input[r]

\* Three ranks, width 7: rank 0 of ring_allreduce has finished the
\* reduce-scatter and holds the reduced slice 1 (columns 4 and 5).
C30_WitnessSlice ==
    /\ entry = "ring_allreduce"
    /\ nprocs = 3 /\ width = 7
    /\ input[1][4] = 16
    /\ call[0].pc = "ring_ag0_recv"
    /\ mat[0][4] = 84 /\ mat[0][5] = 105

\* The buffers of rank r's pool for the size the allreduce asks for.
Slots(r) ==
    IF max_recv_count \in DOMAIN collective_bufs[r]
    THEN collective_bufs[r][max_recv_count] ELSE <<>>

\* C31: inside the allreduce algorithms get_collective_buffer never returns
\* a null buffer: recv_buf is slot 0 of the pool from the first SendRecv on,
\* and recv_buf2, taken after the first allgather step, is slot 1.  In
\* every forwarding step of the PE ring the buffer sent from and the buffer
\* received into are the two slots, different from each other and changing
\* places from step to step, and what is sent in step k is what the rank
\* received in the step before (what its left neighbour sent then), as it
\* lies in the buffer.
C31_ScratchBuffers ==
    \A r \in Ranks :
        LET c == call[r]
            src == (r - 1 + nprocs) % nprocs
        IN /\ c.pc \in {"rd_recv", "rs_recv", "ag0_recv", "ag_recv"}
                 => /\ c.recv_buf # NullPtr
                    /\ Len(Slots(r)) >= 1
                    /\ c.recv_buf \in Range(Slots(r))
           /\ (c.pc = "rd_recv" \/ c.pc = "rs_recv" \/ c.pc = "ag0_recv")
                 => c.recv_buf = Slots(r)[1]
           /\ (c.algo = "pe_ring_allreduce" /\ c.pc \in {"ag_recv", "done"})
                 => /\ c.recv_buf # NullPtr /\ c.recv_buf2 # NullPtr
                    /\ Len(Slots(r)) = 2
                    /\ {c.recv_buf, c.recv_buf2} = {Slots(r)[1], Slots(r)[2]}
                    /\ c.recv_buf # c.recv_buf2
           /\ c.pc = "ag_recv"
                 => LET k == nprocs + c.step
                    IN /\ c.recv_buf = Slots(r)[((c.step - 1) % 2) + 1]
                       /\ c.recv_buf2 = Slots(r)[(c.step % 2) + 1]
                       /\ Len(c.log) = k
                       /\ c.log[k].size = call[src].log[k - 1].size
                       /\ c.log[k].data = call[src].log[k - 1].data
                       /\ c.log[k].data =
                             Decode(heap[r][c.recv_buf],
                                    ColsOf(c.log[k].size, height))

\* Four ranks, a 2 x 7 matrix: rank 0 is in its second forwarding step,
\* sending from slot 1 what it received into it in the first.
C31_Witness ==
    /\ nprocs = 4 /\ height = 2 /\ width = 7
    /\ call[0].algo = "pe_ring_allreduce"
    /\ call[0].pc = "ag_recv" /\ call[0].step = 2
    /\ call[0].recv_buf = Slots(0)[2]
    /\ call[0].recv_buf2 = Slots(0)[1]
    /\ call[0].log[6].data = call[3].log[5].data
    /\ call[0].log[6].data # <<>>

====
